---- MODULE Spec2Model ----
(***************************************************************************)
(* The agent-loop driver of ralph: the main loop of ralph.sh (lines        *)
(* 296-350) and of ralph.ps1 (lines 261-312).  One run of one of the two   *)
(* scripts is one behaviour; the agent is an environment that returns an   *)
(* arbitrary output text on every invocation.                              *)
(***************************************************************************)
EXTENDS Integers, Sequences, FiniteSets, TLC

\* ------------------------------------------------------------------------
\* Bounds of the model
\* ------------------------------------------------------------------------
\* largest max_iterations argument that is explored
MaxIter == 3
\* longest agent output, in words
MaxLen == 2

\* ------------------------------------------------------------------------
\* Program constants
\* ------------------------------------------------------------------------
MAX_RETRIES == 3
RETRY_DELAY == 10
ITERATION_DELAY == 2

\* ------------------------------------------------------------------------
\* Agent output text.  A text is a sequence of words; a pattern without
\* regex operators matches a text when one of its words is the pattern.
\* ------------------------------------------------------------------------
CompletionMarker == "<promise>COMPLETE</promise>"

\* the alternatives of the connection-error regular expression
ConnectionErrorPatterns ==
  {"ConnectError", "ETIMEDOUT", "ECONNRESET", "ENOTFOUND",
   "connection refused", "Connection refused"}

\* words the agent may print in the explored runs
Words ==
  {"ok", "ECONNRESET", "econnreset", CompletionMarker, "<promise>complete</promise>"}

\* case folding, as the .NET regex engine applies it under IgnoreCase
Lower(w) ==
  CASE w = "ConnectError" -> "connecterror"
    [] w = "ETIMEDOUT" -> "etimedout"
    [] w = "ECONNRESET" -> "econnreset"
    [] w = "ENOTFOUND" -> "enotfound"
    [] w = "Connection refused" -> "connection refused"
    [] w = "CONNECTION REFUSED" -> "connection refused"
    [] w = "<promise>COMPLETE</promise>" -> "<promise>complete</promise>"
    [] OTHER -> w

\* echo "$OUTPUT" | grep -qE "p1|p2|...": case-sensitive search
Grep(text, patterns) ==
  \E i \in 1..Len(text) : text[i] \in patterns

\* $Output -match "p1|p2|...": PowerShell's -match ignores case
Match(text, patterns) ==
  \E i \in 1..Len(text) : Lower(text[i]) \in {Lower(p) : p \in patterns}

\* the connection-error test of the main loop
IsConnectionError(v, text) ==
  IF v = "sh" THEN Grep(text, ConnectionErrorPatterns)
              ELSE Match(text, ConnectionErrorPatterns)

\* the completion test of the main loop
IsComplete(v, text) ==
  IF v = "sh" THEN Grep(text, {CompletionMarker})
              ELSE Match(text, {CompletionMarker})

\* variant of Classify: the completion test is made before the
\* connection-error test
Classify_CompletionFirst(v, text) ==
  IF IsComplete(v, text) THEN "complete"
  ELSE IF IsConnectionError(v, text) THEN "error"
  ELSE "continue"

\* the if-chain of the loop body: the connection-error test comes first and
\* ends the pass, the completion test is made only when it fails
Classify(v, text) ==
  IF IsConnectionError(v, text) THEN "error"
  ELSE IF IsComplete(v, text) THEN "complete"
  ELSE "continue"

\* all texts of at most n words
RECURSIVE TextsUpTo(_)
TextsUpTo(n) ==
  IF n = 0 THEN {<<>>}
  ELSE LET shorter == TextsUpTo(n - 1)
       IN  shorter \cup {Append(t, w) : t \in {s \in shorter : Len(s) = n - 1}, w \in Words}

Outputs == TextsUpTo(MaxLen)

\* ------------------------------------------------------------------------
\* State
\* ------------------------------------------------------------------------
VARIABLES
  variant,             \* "sh" (ralph.sh) or "ps1" (ralph.ps1)
  MAX_ITERATIONS,      \* the max_iterations argument
  pc,                  \* position of the script
  ITERATION,
  CONSECUTIVE_ERRORS,
  OUTPUT,              \* captured output of the latest invocation
  WAIT_TIME,           \* latest backoff delay computed, 0 before the first
  exitCode,            \* -1 while the script runs
  invocations,         \* history: number of agent invocations made
  productive,          \* history: invocations not handled as connection error
  nSleeps,             \* history: number of sleep calls made
  lastSleep,           \* history: seconds of the latest sleep call, 0 if none
  recent,              \* history: the latest MAX_RETRIES invocations, oldest first
  everMatched,         \* history: some output held a signature or the marker
  agentStatus,         \* exit status of the latest agent command, 0 before the first
  runs,                \* side by side: the run of each script on the same outputs
  argv,                \* command-line arguments not yet consumed ($@)
  WORKER,              \* WORKER / $Worker
  installed,           \* the commands that resolve on this machine
  effects,             \* what the start-up sections wrote so far
  SCRIPT_DIR,          \* directory of the script, as its depth below the root
  prdAt,               \* the directories above the script that hold prd.json
  PROJECT_ROOT,        \* PROJECT_ROOT / $ProjectRoot, as a depth
  unstaged,            \* git diff finds changes when the branch setup starts
  staged,              \* git diff --cached finds changes then
  STASHED,             \* STASHED / $script:Stashed
  gitCalls,            \* the git commands that change the repository, in order
  prdBranch,           \* .branchName of prd.json, "" without file or field
  lastBranchFile,      \* content of .last-branch in pieces, <<>> without file
  progressFile,        \* progress.txt: "none", "header" or "log"
  archives,            \* number of archive folders written
  newline,             \* the line end the platform writes
  starts,              \* number of times the script was started
  lastStart,           \* history: what the latest start found and did
  req,                 \* req.body of the POST /api/convert request
  cpc,                 \* position of the request handler and the conversion
  events,              \* what progressCallback and the handler wrote, in order
  conversion,          \* the promise convertPRDToJSON returned
  agentFailure,        \* history: why the agent conversion failed, "none" if not
  res,                 \* the response: status, ended, error passed to next()
  timeout,             \* execAgentCommand: the timeout argument
  timeoutId,           \* the timer: "none", "armed", "fired" or "cleared"
  child,               \* the child process: state, signal sent, error emitted
  stdout,              \* number of chunks received on child.stdout
  promise,             \* the promise execAgentCommand returned
  handled,             \* history: the callbacks that ran, in order
  body,                \* req.body / req.query of a request to a file route
  rpc,                 \* "request" until a route handler answered, then "done"
  calls,               \* the validation and fileService calls made, in order
  reply,               \* the answer: route, status, error passed to next()
  written,             \* project field of the prd.json written, "" if none
  parsedStories,       \* parsed.userStories: title and description of each
  userStories,         \* the stories before ordering, with id and priority
  orderedStories,      \* result of orderStoriesByDependencies
  tpc,                 \* "template" until the template conversion ran
  prdContent,          \* the prdContent prop of JSONPreview
  conversionInProgress,\* conversionInProgress.current
  lastConvertedContent,\* lastConvertedContent.current
  jsonData,            \* the prdContent the jsonData state was converted from
  converting,          \* the converting state
  error,               \* the error state: TRUE when a message is set
  view,                \* what the last render shows
  requests,            \* the /api/convert requests in flight
  pendingEffects,      \* runs of the effect React has still to make
  nRequests,           \* requests sent so far
  nChanges,            \* prop changes so far
  changedInFlight,     \* history: prdContent changed during a conversion
  outcomes             \* history: what calls of convertPRD came to

vars == <<variant, MAX_ITERATIONS, pc, ITERATION, CONSECUTIVE_ERRORS, OUTPUT,
          WAIT_TIME, exitCode, invocations, productive, nSleeps, lastSleep,
          recent, everMatched, agentStatus, runs, argv, WORKER, installed,
          effects, SCRIPT_DIR, prdAt, PROJECT_ROOT, unstaged, staged,
          STASHED, gitCalls, prdBranch, lastBranchFile, progressFile,
          archives, newline, starts, lastStart, req, cpc, events,
          conversion, agentFailure, res, timeout, timeoutId, child, stdout,
          promise, handled, body, rpc, calls, reply, written, parsedStories,
          userStories, orderedStories, tpc, prdContent, conversionInProgress,
          lastConvertedContent, jsonData, converting, error, view, requests,
          pendingEffects, nRequests, nChanges, changedInFlight, outcomes>>

\* the variables of the driver scripts' start-up and main loop
mainVars == <<variant, MAX_ITERATIONS, pc, ITERATION, CONSECUTIVE_ERRORS,
              OUTPUT, WAIT_TIME, exitCode, invocations, productive, nSleeps,
              lastSleep, recent, everMatched, agentStatus, runs, argv, WORKER,
              installed, effects>>

\* the variables of the project-root search
rootVars == <<SCRIPT_DIR, prdAt, PROJECT_ROOT>>

\* the variables of the branch setup
gitVars == <<unstaged, staged, STASHED, gitCalls>>

\* the driver variables but for the position and the exit code
restVars == <<variant, MAX_ITERATIONS, ITERATION, CONSECUTIVE_ERRORS, OUTPUT,
              WAIT_TIME, invocations, productive, nSleeps, lastSleep, recent,
              everMatched, agentStatus, runs, argv, WORKER, installed,
              effects>>

\* the variables of the archive management
archiveVars == <<prdBranch, lastBranchFile, progressFile, archives, newline,
                 starts, lastStart>>

\* the variables of the conversion request
convertVars == <<req, cpc, events, conversion, agentFailure, res>>

\* the variables of execAgentCommand
execVars == <<timeout, timeoutId, child, stdout, promise, handled>>

\* the variables of the file routes
routeVars == <<body, rpc, calls, reply, written>>

\* the variables of the template conversion
templateVars == <<parsedStories, userStories, orderedStories, tpc>>

\* the variables of the JSONPreview component
previewVars ==
  <<prdContent, conversionInProgress, lastConvertedContent, jsonData,
    converting, error, view, requests, pendingEffects, nRequests, nChanges,
    changedInFlight, outcomes>>

\* the variables of the driver scripts
scriptVars == <<restVars, pc, exitCode, rootVars, gitVars, archiveVars>>

\* the variables outside start-up and main loop
extVars == <<rootVars, gitVars, archiveVars, convertVars, execVars,
             routeVars, templateVars,
             previewVars>>

\* the variables the main loop of a single run leaves alone
auxVars == <<runs, argv, WORKER, installed, effects, extVars>>

\* the exact-case reading of the two output signals
HasSignature(text) == \E i \in 1..Len(text) : text[i] \in ConnectionErrorPatterns
HasMarker(text) == \E i \in 1..Len(text) : text[i] = CompletionMarker

\* the driver state of the design, read off the script position
State ==
  CASE pc = "exit_complete" -> "Succeeded"
    [] pc = "exit_errors" -> "FailedTooManyErrors"
    [] pc = "exit_max" -> "FailedMaxIterations"
    [] OTHER -> "Running"

\* values of max_iterations accepted by the argument parser
ArgMaxIterations == 0..MaxIter

\* the two scripts
Variants == {"sh", "ps1"}

DefaultWorker == "cursor"
DefaultMaxIterations == 10
Workers == {"cursor", "amp"}
Commands == {"agent", "amp", "jq"}

\* the project root was found in the script directory
RootIdle ==
  /\ SCRIPT_DIR = 0
  /\ prdAt = {0}
  /\ PROJECT_ROOT = 0

\* a clean work tree, already on the target branch
GitIdle ==
  /\ unstaged = FALSE
  /\ staged = FALSE
  /\ STASHED = FALSE
  /\ gitCalls = <<>>

\* a first start in a project without prd.json
NoStart == [prd |-> "", last |-> "", archived |-> FALSE, reset |-> FALSE]

ArchiveIdle ==
  /\ prdBranch = ""
  /\ lastBranchFile = <<>>
  /\ progressFile = "none"
  /\ archives = 0
  /\ newline = <<"\n">>
  /\ starts = 0
  /\ lastStart = NoStart

\* a promise that is not settled
Pending == [state |-> "pending", value |-> "none", valid |-> FALSE,
            error |-> "none"]

\* a response nothing was done with
NoResponse == [status |-> 0, ended |-> FALSE, next |-> FALSE]

\* no request
ConvertIdle ==
  /\ req = [markdown |-> "none", useSSE |-> FALSE]
  /\ cpc = "idle"
  /\ events = <<>>
  /\ conversion = Pending
  /\ agentFailure = "none"
  /\ res = NoResponse

\* a child process that was just spawned
Spawned == [state |-> "running", signal |-> "none", errored |-> FALSE]

\* no agent command
ExecIdle ==
  /\ timeout = 0
  /\ timeoutId = "none"
  /\ child = Spawned
  /\ stdout = 0
  /\ promise = Pending
  /\ handled = <<>>

\* a request body without any field
NoBody ==
  [projectPath |-> "none", featureName |-> "none", content |-> FALSE,
   answers |-> FALSE, projectName |-> "",
   jsonData |-> [present |-> FALSE, project |-> "", branchName |-> "",
                 userStories |-> "missing"]]

NoReply == [route |-> "none", status |-> 0, next |-> FALSE]

\* no request to a file route
RoutesIdle ==
  /\ body = NoBody
  /\ rpc = "idle"
  /\ calls = <<>>
  /\ reply = NoReply
  /\ written = ""

\* no template conversion
TemplateIdle ==
  /\ parsedStories = <<>>
  /\ userStories = <<>>
  /\ orderedStories = <<>>
  /\ tpc = "idle"

\* JSONPreview not mounted
PreviewIdle ==
  /\ prdContent = ""
  /\ conversionInProgress = FALSE
  /\ lastConvertedContent = ""
  /\ jsonData = ""
  /\ converting = FALSE
  /\ error = FALSE
  /\ view = "none"
  /\ requests = {}
  /\ pendingEffects = 0
  /\ nRequests = 0
  /\ nChanges = 0
  /\ changedInFlight = FALSE
  /\ outcomes = {}

\* the parts outside start-up and main loop, at rest; part names the one in use
ExtIdle(part) ==
  /\ (IF part = "root" THEN TRUE ELSE RootIdle)
  /\ (IF part = "git" THEN TRUE ELSE GitIdle)
  /\ (IF part = "archive" THEN TRUE ELSE ArchiveIdle)
  /\ (IF part = "convert" THEN TRUE ELSE ConvertIdle)
  /\ (IF part = "exec" THEN TRUE ELSE ExecIdle)
  /\ (IF part = "routes" THEN TRUE ELSE RoutesIdle)
  /\ (IF part = "template" THEN TRUE ELSE TemplateIdle)
  /\ (IF part = "preview" THEN TRUE ELSE PreviewIdle)

\* the state the start-up sections leave behind when every precondition holds
StartupDone ==
  /\ argv = <<>>
  /\ WORKER = DefaultWorker
  /\ installed = Commands
  /\ effects = {}

\* a run as a value: the counters, the design state, what was done so far
NewRun ==
  [state |-> "Running", ITERATION |-> 1, CONSECUTIVE_ERRORS |-> 0,
   exitCode |-> -1, invocations |-> 0, sleeps |-> <<>>]

Init ==
  /\ variant \in Variants
  /\ MAX_ITERATIONS \in ArgMaxIterations
  /\ pc = "while"
  /\ ITERATION = 1
  /\ CONSECUTIVE_ERRORS = 0
  /\ OUTPUT = <<>>
  /\ WAIT_TIME = 0
  /\ exitCode = -1
  /\ invocations = 0
  /\ productive = 0
  /\ nSleeps = 0
  /\ lastSleep = 0
  /\ recent = <<>>
  /\ everMatched = FALSE
  /\ agentStatus = 0
  /\ runs = [v \in Variants |-> NewRun]
  /\ StartupDone
  /\ ExtIdle("main")

\* sleep N / Start-Sleep -Seconds N
Sleep(secs) ==
  /\ nSleeps' = nSleeps + 1
  /\ lastSleep' = secs

\* history: remember how the latest invocation was handled
Remember(asError) ==
  LET entry == [sig |-> HasSignature(OUTPUT),
                marker |-> HasMarker(OUTPUT),
                err |-> asError,
                iter |-> ITERATION]
      all == Append(recent, entry)
  IN  recent' = IF Len(all) > MAX_RETRIES THEN Tail(all) ELSE all

\* variant of LoopCondition: one pass too many
LoopCondition_OnePassMore(i, m) == i <= m + 1

\* [ $ITERATION -le $MAX_ITERATIONS ]
LoopCondition(i, m) == i <= m

\* while ...; do: the loop body is entered
WhileEnter ==
  /\ pc = "while"
  /\ LoopCondition(ITERATION, MAX_ITERATIONS)
  /\ pc' = "run_agent"
  /\ UNCHANGED auxVars
  /\ UNCHANGED <<agentStatus, variant, MAX_ITERATIONS, ITERATION, CONSECUTIVE_ERRORS, OUTPUT,
                 WAIT_TIME, exitCode, invocations, productive, nSleeps,
                 lastSleep, recent, everMatched>>

\* the loop condition fails: "reached max iterations", exit 1
MaxIterationsReached ==
  /\ pc = "while"
  /\ ~LoopCondition(ITERATION, MAX_ITERATIONS)
  /\ pc' = "exit_max"
  /\ exitCode' = 1
  /\ UNCHANGED auxVars
  /\ UNCHANGED <<agentStatus, variant, MAX_ITERATIONS, ITERATION, CONSECUTIVE_ERRORS, OUTPUT,
                 WAIT_TIME, invocations, productive, nSleeps, lastSleep,
                 recent, everMatched>>

\* exit statuses with which the agent command may end
AgentStatuses == {0, 1}

\* variant of OrTrue: the "|| true" is missing
OrTrue_Missing(status) == status

\* cmd || true: the status of the list is 0 whatever the status of cmd
OrTrue(status) == IF status # 0 THEN 0 ELSE status

\* the status the invocation statement leaves behind: ralph.sh guards the
\* command substitution with "|| true"; ralph.ps1 calls a function, and the
\* exit code of a native command is not an error in PowerShell
InvocationStatus(v, status) == IF v = "sh" THEN OrTrue(status) ELSE 0

\* set -e: ralph.sh exits when a statement ends with a non-zero status
ErrExit(v, status) == v = "sh" /\ status # 0

\* OUTPUT=$(run_agent ...) || true: the agent ends with some status and the
\* text it printed is captured
RunAgent ==
  /\ pc = "run_agent"
  /\ \E out \in Outputs :
       /\ OUTPUT' = out
       /\ everMatched' = (everMatched \/ HasSignature(out) \/ HasMarker(out))
  /\ \E status \in AgentStatuses :
       /\ agentStatus' = status
       /\ IF ErrExit(variant, InvocationStatus(variant, status))
          THEN pc' = "exit_errexit" /\ exitCode' = status
          ELSE pc' = "check" /\ exitCode' = exitCode
  /\ invocations' = invocations + 1
  /\ UNCHANGED auxVars
  /\ UNCHANGED <<variant, MAX_ITERATIONS, ITERATION, CONSECUTIVE_ERRORS,
                 WAIT_TIME, productive, nSleeps, lastSleep, recent>>

\* variant of NextErrors: the increment is missing
NextErrors_Stuck(errors) == errors

\* CONSECUTIVE_ERRORS=$((CONSECUTIVE_ERRORS + 1))
NextErrors(errors) == errors + 1

\* variant of RetriesExhausted: the budget test is off by one (-gt for -ge)
RetriesExhausted_OffByOne(errors) == errors > MAX_RETRIES

\* [ $CONSECUTIVE_ERRORS -ge $MAX_RETRIES ]
RetriesExhausted(errors) == errors >= MAX_RETRIES

\* variant of ResetErrors: the counter is not reset
ResetErrors_Keeps == CONSECUTIVE_ERRORS

\* CONSECUTIVE_ERRORS=0, "reset error counter on successful connection"
ResetErrors == 0

\* variant of NextIteration: the counter advances by two
NextIteration_ByTwo(i) == i + 2

\* ITERATION=$((ITERATION + 1))
NextIteration(i) == i + 1

\* variant of Backoff: the delay does not grow with the streak
Backoff_Constant(errors) == RETRY_DELAY

\* WAIT_TIME=$((RETRY_DELAY * CONSECUTIVE_ERRORS))
Backoff(errors) == RETRY_DELAY * errors

\* connection error, retry budget used up: exit 1
ConnectionErrorAbort ==
  /\ pc = "check"
  /\ Classify(variant, OUTPUT) = "error"
  /\ CONSECUTIVE_ERRORS' = NextErrors(CONSECUTIVE_ERRORS)
  /\ RetriesExhausted(CONSECUTIVE_ERRORS')
  /\ pc' = "exit_errors"
  /\ exitCode' = 1
  /\ Remember(TRUE)
  /\ UNCHANGED auxVars
  /\ UNCHANGED <<agentStatus, variant, MAX_ITERATIONS, ITERATION, OUTPUT, WAIT_TIME,
                 invocations, productive, nSleeps, lastSleep, everMatched>>

\* variant of ConnectionErrorRetry: the retry falls through to the increment
\* of the iteration counter (the "continue" statement is missing)
ConnectionErrorRetry_Advances ==
  /\ pc = "check"
  /\ Classify(variant, OUTPUT) = "error"
  /\ CONSECUTIVE_ERRORS' = NextErrors(CONSECUTIVE_ERRORS)
  /\ ~RetriesExhausted(CONSECUTIVE_ERRORS')
  /\ WAIT_TIME' = Backoff(CONSECUTIVE_ERRORS')
  /\ Sleep(WAIT_TIME')
  /\ ITERATION' = NextIteration(ITERATION)
  /\ pc' = "while"
  /\ Remember(TRUE)
  /\ UNCHANGED auxVars
  /\ UNCHANGED <<agentStatus, variant, MAX_ITERATIONS, OUTPUT, exitCode,
                 invocations, productive, everMatched>>

\* connection error, budget left: back off and retry the same iteration
ConnectionErrorRetry ==
  /\ pc = "check"
  /\ Classify(variant, OUTPUT) = "error"
  /\ CONSECUTIVE_ERRORS' = NextErrors(CONSECUTIVE_ERRORS)
  /\ ~RetriesExhausted(CONSECUTIVE_ERRORS')
  /\ WAIT_TIME' = Backoff(CONSECUTIVE_ERRORS')
  /\ Sleep(WAIT_TIME')
  /\ pc' = "while"
  /\ Remember(TRUE)
  /\ UNCHANGED auxVars
  /\ UNCHANGED <<agentStatus, variant, MAX_ITERATIONS, ITERATION, OUTPUT, exitCode,
                 invocations, productive, everMatched>>

\* no connection error and the completion marker is found: exit 0
Complete ==
  /\ pc = "check"
  /\ Classify(variant, OUTPUT) = "complete"
  /\ CONSECUTIVE_ERRORS' = ResetErrors
  /\ pc' = "exit_complete"
  /\ exitCode' = 0
  /\ productive' = productive + 1
  /\ Remember(FALSE)
  /\ UNCHANGED auxVars
  /\ UNCHANGED <<agentStatus, variant, MAX_ITERATIONS, ITERATION, OUTPUT, WAIT_TIME,
                 invocations, nSleeps, lastSleep, everMatched>>

\* variant of Continue: the inter-iteration sleep is missing
Continue_NoDelay ==
  /\ pc = "check"
  /\ Classify(variant, OUTPUT) = "continue"
  /\ CONSECUTIVE_ERRORS' = ResetErrors
  /\ ITERATION' = NextIteration(ITERATION)
  /\ pc' = "while"
  /\ productive' = productive + 1
  /\ Remember(FALSE)
  /\ UNCHANGED auxVars
  /\ UNCHANGED <<agentStatus, variant, MAX_ITERATIONS, OUTPUT, WAIT_TIME, exitCode,
                 invocations, nSleeps, lastSleep, everMatched>>

\* neither: advance to the next iteration after the fixed delay
Continue ==
  /\ pc = "check"
  /\ Classify(variant, OUTPUT) = "continue"
  /\ CONSECUTIVE_ERRORS' = ResetErrors
  /\ ITERATION' = NextIteration(ITERATION)
  /\ Sleep(ITERATION_DELAY)
  /\ pc' = "while"
  /\ productive' = productive + 1
  /\ Remember(FALSE)
  /\ UNCHANGED auxVars
  /\ UNCHANGED <<agentStatus, variant, MAX_ITERATIONS, OUTPUT, WAIT_TIME, exitCode,
                 invocations, everMatched>>

Next ==
  \/ WhileEnter
  \/ MaxIterationsReached
  \/ RunAgent
  \/ ConnectionErrorAbort
  \/ ConnectionErrorRetry
  \/ Complete
  \/ Continue

Spec == Init /\ [][Next]_vars

\* the script runs on: a step that can be taken is taken, and every agent
\* invocation returns
SpecFair == Spec /\ WF_vars(Next)

\* ------------------------------------------------------------------------
\* The two scripts side by side.  The main loop as a function on run values:
\* one call is one pass of the loop body, made for the output the agent
\* returned, followed by the next evaluation of the loop condition.
\* ------------------------------------------------------------------------

\* the loop condition: a run that fails it ends with exit 1
LoopTest(m, r) ==
  IF r.state = "Running" /\ ~LoopCondition(r.ITERATION, m)
  THEN [r EXCEPT !.state = "FailedMaxIterations", !.exitCode = 1]
  ELSE r

\* the loop body for output out
LoopBody(v, r, out) ==
  LET invoked == [r EXCEPT !.invocations = @ + 1]
      errors == NextErrors(r.CONSECUTIVE_ERRORS)
      class == Classify(v, out)
  IN  IF class = "error"
      THEN IF RetriesExhausted(errors)
           THEN [invoked EXCEPT !.CONSECUTIVE_ERRORS = errors,
                                !.state = "FailedTooManyErrors",
                                !.exitCode = 1]
           ELSE [invoked EXCEPT !.CONSECUTIVE_ERRORS = errors,
                                !.sleeps = Append(@, Backoff(errors))]
      ELSE IF class = "complete"
      THEN [invoked EXCEPT !.CONSECUTIVE_ERRORS = 0,
                           !.state = "Succeeded",
                           !.exitCode = 0]
      ELSE [invoked EXCEPT !.CONSECUTIVE_ERRORS = 0,
                           !.ITERATION = NextIteration(@),
                           !.sleeps = Append(@, ITERATION_DELAY)]

LoopPass(v, m, r, out) == LoopTest(m, LoopBody(v, r, out))

\* both scripts are started with the same max_iterations
InitBoth ==
  /\ variant = "sh"
  /\ MAX_ITERATIONS \in ArgMaxIterations
  /\ pc = "both"
  /\ ITERATION = 1
  /\ CONSECUTIVE_ERRORS = 0
  /\ OUTPUT = <<>>
  /\ WAIT_TIME = 0
  /\ exitCode = -1
  /\ invocations = 0
  /\ productive = 0
  /\ nSleeps = 0
  /\ lastSleep = 0
  /\ recent = <<>>
  /\ everMatched = FALSE
  /\ agentStatus = 0
  /\ runs = [v \in Variants |-> LoopTest(MAX_ITERATIONS, NewRun)]
  /\ StartupDone
  /\ ExtIdle("main")

\* the agent returns the same output to every script that is still running
FeedBoth ==
  /\ pc = "both"
  /\ \E v \in Variants : runs[v].state = "Running"
  /\ \E out \in Outputs :
       /\ OUTPUT' = out
       /\ runs' = [v \in Variants |->
                     IF runs[v].state = "Running"
                     THEN LoopPass(v, MAX_ITERATIONS, runs[v], out)
                     ELSE runs[v]]
  /\ UNCHANGED <<variant, MAX_ITERATIONS, pc, ITERATION, CONSECUTIVE_ERRORS,
                 WAIT_TIME, exitCode, invocations, productive, nSleeps,
                 lastSleep, recent, everMatched, agentStatus, argv, WORKER,
                 installed, effects, extVars>>

NextBoth == FeedBoth

SpecBoth == InitBoth /\ [][NextBoth]_vars

\* ------------------------------------------------------------------------
\* Start-up: from the command line to the first test of the loop condition.
\* ------------------------------------------------------------------------

MaxArgs == 3

ArgTokens == {"--worker", "-Worker", "--help", "amp", "bogus", "0", "2", "-1"}

RECURSIVE ArgsUpTo(_)
ArgsUpTo(n) ==
  IF n = 0 THEN {<<>>}
  ELSE ArgsUpTo(n - 1) \cup
       {Append(a, t) : a \in {b \in ArgsUpTo(n - 1) : Len(b) = n - 1},
                       t \in ArgTokens}

ArgLists == ArgsUpTo(MaxArgs)

\* the characters of a token
Chars(tok) ==
  CASE tok = "0" -> <<"0">>
    [] tok = "2" -> <<"2">>
    [] tok = "-1" -> <<"-", "1">>
    [] tok = "amp" -> <<"a", "m", "p">>
    [] tok = "bogus" -> <<"b", "o", "g", "u", "s">>
    [] tok = "--help" -> <<"-", "-", "h", "e", "l", "p">>
    [] tok = "--worker" -> <<"-", "-", "w", "o", "r", "k", "e", "r">>
    [] tok = "-Worker" -> <<"-", "W", "o", "r", "k", "e", "r">>

DigitValue(c) ==
  CASE c = "0" -> 0 [] c = "1" -> 1 [] c = "2" -> 2 [] c = "3" -> 3
    [] c = "4" -> 4 [] c = "5" -> 5 [] c = "6" -> 6 [] c = "7" -> 7
    [] c = "8" -> 8 [] c = "9" -> 9 [] OTHER -> -1

AllDigits(cs) == Len(cs) > 0 /\ \A i \in 1..Len(cs) : DigitValue(cs[i]) >= 0

RECURSIVE Decimal(_)
Decimal(cs) ==
  IF cs = <<>> THEN 0
  ELSE 10 * Decimal(SubSeq(cs, 1, Len(cs) - 1)) + DigitValue(cs[Len(cs)])

\* [[ "$1" =~ ^[0-9]+$ ]]
IsNumber(tok) == AllDigits(Chars(tok))

\* conversion of an argument to [int]
IsInt(tok) ==
  \/ AllDigits(Chars(tok))
  \/ Chars(tok)[1] = "-" /\ AllDigits(Tail(Chars(tok)))

ToInt(tok) ==
  IF Chars(tok)[1] = "-" THEN 0 - Decimal(Tail(Chars(tok)))
  ELSE Decimal(Chars(tok))

\* command -v CMD / Get-Command CMD
CommandV_Found(cmd) == TRUE

CommandV(cmd) == cmd \in installed

InitStartup ==
  /\ variant \in Variants
  /\ argv \in ArgLists
  /\ installed \in SUBSET Commands
  /\ WORKER = DefaultWorker
  /\ MAX_ITERATIONS = DefaultMaxIterations
  /\ effects = {}
  /\ pc = "parse"
  /\ ITERATION = 1
  /\ CONSECUTIVE_ERRORS = 0
  /\ OUTPUT = <<>>
  /\ WAIT_TIME = 0
  /\ exitCode = -1
  /\ invocations = 0
  /\ productive = 0
  /\ nSleeps = 0
  /\ lastSleep = 0
  /\ recent = <<>>
  /\ everMatched = FALSE
  /\ agentStatus = 0
  /\ runs = [v \in Variants |-> NewRun]
  /\ ExtIdle("main")

loopVars == <<ITERATION, CONSECUTIVE_ERRORS, OUTPUT, WAIT_TIME, invocations,
              productive, nSleeps, lastSleep, recent, everMatched,
              agentStatus, runs, extVars>>

\* ralph.sh: one pass of the argument loop, or its end
ParseArg ==
  /\ pc = "parse"
  /\ variant = "sh"
  /\ IF argv = <<>>
     THEN /\ pc' = "worker"
          /\ UNCHANGED <<argv, WORKER, MAX_ITERATIONS, exitCode>>
     ELSE IF Head(argv) = "--worker"
     THEN /\ WORKER' = IF Len(argv) >= 2 THEN argv[2] ELSE ""
          /\ IF Len(argv) >= 2
             THEN /\ argv' = SubSeq(argv, 3, Len(argv))
                  /\ UNCHANGED <<pc, exitCode>>
             ELSE \* shift 2 fails and set -e ends the script
                  /\ pc' = "exit_usage"
                  /\ exitCode' = 1
                  /\ UNCHANGED argv
          /\ UNCHANGED MAX_ITERATIONS
     ELSE IF Head(argv) = "--help"
     THEN /\ pc' = "exit_help"
          /\ exitCode' = 0
          /\ UNCHANGED <<argv, WORKER, MAX_ITERATIONS>>
     ELSE IF IsNumber(Head(argv))
     THEN /\ MAX_ITERATIONS' = Decimal(Chars(Head(argv)))
          /\ argv' = Tail(argv)
          /\ UNCHANGED <<pc, WORKER, exitCode>>
     ELSE /\ pc' = "exit_usage"
          /\ exitCode' = 1
          /\ UNCHANGED <<argv, WORKER, MAX_ITERATIONS>>
  /\ UNCHANGED <<variant, installed, effects>>
  /\ UNCHANGED loopVars

\* ralph.ps1: binding of the arguments to the param block
NoBinding ==
  [Worker |-> DefaultWorker, MaxIterations |-> DefaultMaxIterations,
   workerBound |-> FALSE, positionBound |-> FALSE, error |-> "none"]

RECURSIVE Bind(_, _)
Bind(args, b) ==
  IF args = <<>> \/ b.error # "none" THEN b
  ELSE IF Head(args) = "-Worker"
  THEN IF Len(args) < 2 \/ b.workerBound
       THEN [b EXCEPT !.error = "usage"]
       ELSE IF args[2] \notin Workers
       THEN [b EXCEPT !.error = "worker", !.Worker = args[2]]
       ELSE Bind(SubSeq(args, 3, Len(args)),
                 [b EXCEPT !.Worker = args[2], !.workerBound = TRUE])
  ELSE IF b.positionBound \/ ~IsInt(Head(args))
       THEN [b EXCEPT !.error = "usage"]
       ELSE Bind(Tail(args),
                 [b EXCEPT !.MaxIterations = ToInt(Head(args)),
                           !.positionBound = TRUE])

BindParams ==
  /\ pc = "parse"
  /\ variant = "ps1"
  /\ LET b == Bind(argv, NoBinding)
     IN  /\ WORKER' = b.Worker
         /\ IF b.error = "none"
            THEN /\ MAX_ITERATIONS' = b.MaxIterations
                 /\ argv' = <<>>
                 /\ pc' = "worker"
                 /\ UNCHANGED exitCode
            ELSE /\ pc' = IF b.error = "worker" THEN "exit_worker"
                                                ELSE "exit_usage"
                 /\ exitCode' = 1
                 /\ UNCHANGED <<argv, MAX_ITERATIONS>>
  /\ UNCHANGED <<variant, installed, effects>>
  /\ UNCHANGED loopVars

\* the executable of a worker
WorkerCommand(w) == IF w = "cursor" THEN "agent" ELSE "amp"

\* case $WORKER in ... esac / switch ($Worker)
ValidateWorker ==
  /\ pc = "worker"
  /\ IF WORKER \in Workers
     THEN IF CommandV(WorkerCommand(WORKER))
          THEN pc' = "jq" /\ UNCHANGED exitCode
          ELSE pc' = "exit_worker" /\ exitCode' = 1
     ELSE IF variant = "sh"
          THEN pc' = "exit_worker" /\ exitCode' = 1
          ELSE pc' = "jq" /\ UNCHANGED exitCode
  /\ UNCHANGED <<variant, MAX_ITERATIONS, argv, WORKER, installed, effects>>
  /\ UNCHANGED loopVars

CheckJq ==
  /\ pc = "jq"
  /\ IF CommandV("jq")
     THEN pc' = "setup" /\ UNCHANGED exitCode
     ELSE pc' = "exit_jq" /\ exitCode' = 1
  /\ UNCHANGED <<variant, MAX_ITERATIONS, argv, WORKER, installed, effects>>
  /\ UNCHANGED loopVars

\* what prd.json, .last-branch and progress.txt can hold at start-up
PrdBranches == {"", "ralph/a"}
LastBranches == {"", "ralph/a", "ralph/b"}

\* archive management, tracking of the branch, progress file
ProjectSetup ==
  /\ pc = "setup"
  /\ \E currentBranch \in PrdBranches, lastBranch \in LastBranches,
        progressExists \in BOOLEAN :
       LET archive == currentBranch # "" /\ lastBranch # "" /\ currentBranch # lastBranch
           track == currentBranch # ""
           progress == archive \/ ~progressExists
       IN  effects' = effects
                        \cup (IF archive THEN {"archive"} ELSE {})
                        \cup (IF track THEN {"last-branch"} ELSE {})
                        \cup (IF progress THEN {"progress"} ELSE {})
  /\ pc' = "git"
  /\ UNCHANGED <<variant, MAX_ITERATIONS, argv, WORKER, installed, exitCode>>
  /\ UNCHANGED loopVars

\* exit statuses of a failed git checkout
GitFailures == {1, 128}

\* setup_git_branch / Setup-GitBranch, called once before the loop
SetupGitBranch ==
  /\ pc = "git"
  /\ \E onTarget \in BOOLEAN, gitStatus \in {0} \cup GitFailures :
       IF "last-branch" \notin effects \/ onTarget
       THEN /\ pc' = "while"
            /\ UNCHANGED <<effects, exitCode>>
       ELSE IF gitStatus = 0 \/ variant = "ps1"
       THEN /\ pc' = "while"
            /\ effects' = effects \cup {"git-branch"}
            /\ UNCHANGED exitCode
       ELSE \* set -e ends ralph.sh with the status of git
            /\ pc' = "exit_git"
            /\ effects' = effects \cup {"git-branch"}
            /\ exitCode' = gitStatus
  /\ UNCHANGED <<variant, MAX_ITERATIONS, argv, WORKER, installed>>
  /\ UNCHANGED loopVars

NextStartup ==
  \/ ParseArg
  \/ BindParams
  \/ ValidateWorker
  \/ CheckJq
  \/ ProjectSetup
  \/ SetupGitBranch
  \/ WhileEnter
  \/ MaxIterationsReached

SpecStartup == InitStartup /\ [][NextStartup]_vars

\* ------------------------------------------------------------------------
\* Parts of the start-up in detail.  The driver variables stay as they are.
\* ------------------------------------------------------------------------

\* the driver at rest while one part is looked at on its own
MainIdle ==
  /\ variant \in Variants
  /\ MAX_ITERATIONS = DefaultMaxIterations
  /\ ITERATION = 1
  /\ CONSECUTIVE_ERRORS = 0
  /\ OUTPUT = <<>>
  /\ WAIT_TIME = 0
  /\ exitCode = -1
  /\ invocations = 0
  /\ productive = 0
  /\ nSleeps = 0
  /\ lastSleep = 0
  /\ recent = <<>>
  /\ everMatched = FALSE
  /\ agentStatus = 0
  /\ runs = [v \in Variants |-> NewRun]
  /\ StartupDone

\* ---- project-root search ----
\* A directory is the number of path components below the filesystem root
\* (0 is the root); -1 is the empty path PowerShell returns as the parent of
\* the root.

MaxDepth == 5

\* [ -f "$PROJECT_ROOT/prd.json" ] / Test-Path "$ProjectRoot\prd.json"
\* (the empty path gives "\prd.json", the root of the drive)
HasPrd(dir, prds) == (IF dir < 0 THEN 0 ELSE dir) \in prds

\* [ "$PROJECT_ROOT" = "/" ] / $ProjectRoot -eq (Split-Path -Qualifier
\* $ProjectRoot): a drive root "C:\" never equals its qualifier "C:"
AtRoot(v, dir) == v = "sh" /\ dir = 0

\* dirname / Split-Path -Parent (which fails on the empty path and leaves
\* the variable as it is)
Parent(v, dir) ==
  IF dir > 0 THEN dir - 1
  ELSE IF v = "sh" THEN 0 ELSE -1

\* the last value of the loop index: for i in {0..3}
LastIndex == 3

\* the for loop from index i on, with PROJECT_ROOT = dir
RECURSIVE Search(_, _, _, _, _)
Search(v, i, dir, scriptDir, prds) ==
  IF i > LastIndex THEN dir
  ELSE IF HasPrd(dir, prds) THEN dir
  ELSE IF AtRoot(v, dir) THEN scriptDir
  ELSE Search(v, i + 1, Parent(v, dir), scriptDir, prds)

InitRoot ==
  /\ MainIdle
  /\ pc = "root"
  /\ SCRIPT_DIR \in 0..MaxDepth
  /\ prdAt \in SUBSET (0..SCRIPT_DIR)
  /\ PROJECT_ROOT = SCRIPT_DIR
  /\ ExtIdle("root")

FindProjectRoot ==
  /\ pc = "root"
  /\ PROJECT_ROOT' = Search(variant, 0, SCRIPT_DIR, SCRIPT_DIR, prdAt)
  /\ pc' = "root_done"
  /\ UNCHANGED <<SCRIPT_DIR, prdAt>>
  /\ UNCHANGED <<restVars, exitCode, gitVars, archiveVars, convertVars, execVars,
                 routeVars, templateVars,
                 previewVars>>

NextRoot == FindProjectRoot

SpecRoot == InitRoot /\ [][NextRoot]_vars

\* ---- branch setup, from the point where the branch must be switched ----

GitStatuses == {0} \cup GitFailures

\* a git command that was run, with its exit status
Call(cmd, status) == [cmd |-> cmd, status |-> status]

\* the outcome of the two git diff --quiet tests: ralph.sh tests both exit
\* statuses, ralph.ps1 reads $LASTEXITCODE after the second command only
HasChanges(v, u, c) == IF v = "sh" THEN u \/ c ELSE c

InitGit ==
  /\ MainIdle
  /\ pc = "git_stash"
  /\ unstaged \in BOOLEAN
  /\ staged \in BOOLEAN
  /\ STASHED = FALSE
  /\ gitCalls = <<>>
  /\ ExtIdle("git")

\* git stash --include-untracked when changes were found
StashChanges ==
  /\ pc = "git_stash"
  /\ IF HasChanges(variant, unstaged, staged)
     THEN \E status \in GitStatuses :
            /\ gitCalls' = Append(gitCalls, Call("stash", status))
            /\ IF status # 0 /\ variant = "sh"
               THEN \* set -e ends ralph.sh before STASHED=1
                    /\ pc' = "exit_git"
                    /\ exitCode' = status
                    /\ UNCHANGED STASHED
               ELSE /\ STASHED' = TRUE
                    /\ pc' = "git_checkout"
                    /\ UNCHANGED exitCode
     ELSE /\ STASHED' = FALSE
          /\ pc' = "git_checkout"
          /\ UNCHANGED <<gitCalls, exitCode>>
  /\ UNCHANGED <<unstaged, staged>>
  /\ UNCHANGED <<restVars, rootVars, archiveVars, convertVars, execVars,
                 routeVars, templateVars,
                 previewVars>>

\* git checkout of the existing branch, or git checkout -b of a new one
CheckoutBranch ==
  /\ pc = "git_checkout"
  /\ \E branchExists \in BOOLEAN, status \in GitStatuses :
       /\ gitCalls' = Append(gitCalls,
                             Call(IF branchExists THEN "checkout"
                                                  ELSE "checkout -b", status))
       /\ IF status # 0 /\ variant = "sh"
          THEN pc' = "exit_git" /\ exitCode' = status
          ELSE pc' = "git_pop" /\ UNCHANGED exitCode
  /\ UNCHANGED <<unstaged, staged, STASHED>>
  /\ UNCHANGED <<restVars, rootVars, archiveVars, convertVars, execVars,
                 routeVars, templateVars,
                 previewVars>>

\* git stash pop when STASHED; its failure is only warned about
RestoreStash ==
  /\ pc = "git_pop"
  /\ IF STASHED
     THEN \E status \in GitStatuses :
            gitCalls' = Append(gitCalls, Call("pop", status))
     ELSE UNCHANGED gitCalls
  /\ pc' = "while"
  /\ UNCHANGED <<unstaged, staged, STASHED, exitCode>>
  /\ UNCHANGED <<restVars, rootVars, archiveVars, convertVars, execVars,
                 routeVars, templateVars,
                 previewVars>>

NextGit ==
  \/ StashChanges
  \/ CheckoutBranch
  \/ RestoreStash

SpecGit == InitGit /\ [][NextGit]_vars

\* ---- archive management, over several starts of the script ----
\* A text is a sequence of pieces: a branch name, "\r" or "\n".

MaxStarts == 3

BranchNames == {"ralph/a", "ralph/b"}

\* the line ends a platform writes: "\n", or "\r\n" on Windows
Newlines(v) == IF v = "sh" THEN {<<"\n">>} ELSE {<<"\n">>, <<"\r", "\n">>}

\* echo "$CURRENT_BRANCH" > file / $CurrentBranch | Set-Content file
WriteLine(text, nl) == text \o nl

\* $(...) strips the trailing newlines
RECURSIVE StripTrailingNewlines(_)
StripTrailingNewlines(text) ==
  IF text # <<>> /\ text[Len(text)] = "\n"
  THEN StripTrailingNewlines(SubSeq(text, 1, Len(text) - 1))
  ELSE text

\* -replace "`n", ""
RECURSIVE RemoveLF(_)
RemoveLF(text) ==
  IF text = <<>> THEN <<>>
  ELSE IF Head(text) = "\n" THEN RemoveLF(Tail(text))
  ELSE <<Head(text)>> \o RemoveLF(Tail(text))

\* LAST_BRANCH=$(cat file) / (Get-Content file -Raw) -replace "`n", ""
ReadLastBranch(v, file) ==
  IF v = "sh" THEN StripTrailingNewlines(file) ELSE RemoveLF(file)

\* CURRENT_BRANCH=$(jq -r '.branchName // empty' prd.json): one line of output
ReadPrdBranch(branch) == IF branch = "" THEN <<>> ELSE <<branch>>

\* the branch name a .last-branch file holds, whatever its line end
RECURSIVE NameIn(_)
NameIn(file) ==
  IF file = <<>> THEN ""
  ELSE IF Head(file) \in {"\r", "\n"} THEN NameIn(Tail(file))
  ELSE Head(file)

\* archive the previous run if the branch changed
ShouldArchive(cur, last) == cur # <<>> /\ last # <<>> /\ cur # last

InitArchive ==
  /\ MainIdle
  /\ pc = "archive"
  /\ prdBranch \in {""} \cup BranchNames
  /\ newline \in Newlines(variant)
  /\ lastBranchFile \in {<<>>} \cup {WriteLine(<<b>>, newline) : b \in BranchNames}
  /\ progressFile \in {"none", "log"}
  /\ archives = 0
  /\ starts = 0
  /\ lastStart = NoStart
  /\ ExtIdle("archive")

\* one start of the script: archive, track the branch, initialise progress
StartScript ==
  /\ starts < MaxStarts
  /\ LET cur == ReadPrdBranch(prdBranch)
         last == ReadLastBranch(variant, lastBranchFile)
         archive == ShouldArchive(cur, last)
     IN  /\ archives' = IF archive THEN archives + 1 ELSE archives
         /\ progressFile' = IF archive \/ progressFile = "none" THEN "header"
                            ELSE progressFile
         /\ lastBranchFile' = IF cur # <<>> THEN WriteLine(cur, newline)
                              ELSE lastBranchFile
         /\ lastStart' = [prd |-> prdBranch, last |-> NameIn(lastBranchFile),
                          archived |-> archive, reset |-> archive]
  /\ starts' = starts + 1
  /\ UNCHANGED <<prdBranch, newline>>
  /\ UNCHANGED <<restVars, pc, exitCode, rootVars, gitVars, convertVars, execVars,
                 routeVars, templateVars,
                 previewVars>>

\* between two starts the user puts another prd.json in place
ChangePrd ==
  /\ starts < MaxStarts
  /\ \E b \in ({""} \cup BranchNames) \ {prdBranch} : prdBranch' = b
  /\ UNCHANGED <<lastBranchFile, progressFile, archives, newline, starts,
                 lastStart>>
  /\ UNCHANGED <<restVars, pc, exitCode, rootVars, gitVars, convertVars, execVars,
                 routeVars, templateVars,
                 previewVars>>

\* the agent appends its notes to progress.txt during a run
AppendProgress ==
  /\ starts > 0
  /\ progressFile = "header"
  /\ progressFile' = "log"
  /\ UNCHANGED <<prdBranch, lastBranchFile, archives, newline, starts,
                 lastStart>>
  /\ UNCHANGED <<restVars, pc, exitCode, rootVars, gitVars, convertVars, execVars,
                 routeVars, templateVars,
                 previewVars>>

NextArchive ==
  \/ StartScript
  \/ ChangePrd
  \/ AppendProgress

SpecArchive == InitArchive /\ [][NextArchive]_vars

\* ------------------------------------------------------------------------
\* The PRD converter backend: POST /api/convert and convertPRDToJSON.
\* ------------------------------------------------------------------------

\* where the markdown of a request comes from: prdContent, a PRD file named
\* by prdPath and projectPath, or nowhere
MarkdownSources == {"content", "file", "none"}

\* how the agent conversion ends: with validated JSON, or with one of the
\* errors of execAgentCommand and of the parsing of its output
AgentOutcomes ==
  {"ok", "timeout", "exit_code", "spawn_error", "truncated", "unparsable",
   "invalid"}

\* the outcomes in which execAgentCommand resolved and the output is parsed
ExecResolved == {"ok", "truncated", "unparsable", "invalid"}

\* how the template conversion ends: a result validateJSON accepts, a result
\* without user stories, or an exception
TemplateOutcomes == {"valid", "invalid", "throws"}

\* progressCallback({ status, message, timestamp })
Progress(status) == [by |-> "progress", status |-> status]

\* res.write of the handler itself
Terminal(status) == [by |-> "handler", status |-> status]

Resolved(source, valid) ==
  [state |-> "resolved", value |-> source, valid |-> valid, error |-> "none"]

Rejected(err) ==
  [state |-> "rejected", value |-> "none", valid |-> FALSE, error |-> err]

\* the catch block around convertPRDToJSONWithAgent
CatchAgentError_TimeoutFatal(outcome) ==
  IF outcome = "timeout" THEN "throw" ELSE "fallback"

CatchAgentError(outcome) == "fallback"

\* status of the last event of the stream
TerminalStatus_Unvalidated(converted, valid) ==
  IF converted THEN "done" ELSE "error"

TerminalStatus(converted, valid) ==
  IF converted /\ valid THEN "done" ELSE "error"

InitConvert ==
  /\ MainIdle
  /\ pc = "serve"
  /\ req \in [markdown : MarkdownSources, useSSE : BOOLEAN]
  /\ cpc = "request"
  /\ events = <<>>
  /\ conversion = Pending
  /\ agentFailure = "none"
  /\ res = NoResponse
  /\ ExtIdle("convert")

\* router.post('/') up to the call of convertPRDToJSON
HandleConvert ==
  /\ cpc = "request"
  /\ IF req.markdown = "none"
     THEN /\ res' = [res EXCEPT !.status = 400, !.ended = TRUE]
          /\ cpc' = "done"
     ELSE IF req.markdown = "file"
     THEN \E read \in {"text", "empty", "throws"} :
            IF read = "throws"
            THEN res' = [res EXCEPT !.next = TRUE] /\ cpc' = "done"
            ELSE IF read = "empty"
            THEN /\ res' = [res EXCEPT !.status = 400, !.ended = TRUE]
                 /\ cpc' = "done"
            ELSE /\ res' = [res EXCEPT !.status = IF req.useSSE THEN 200 ELSE 0]
                 /\ cpc' = "convert"
     ELSE /\ res' = [res EXCEPT !.status = IF req.useSSE THEN 200 ELSE 0]
          /\ cpc' = "convert"
  /\ UNCHANGED <<req, events, conversion, agentFailure>>
  /\ UNCHANGED <<scriptVars, execVars, routeVars, templateVars,
                 previewVars>>

\* convertPRDToJSON: updateProgress('checking', ...)
ConvertStart ==
  /\ cpc = "convert"
  /\ events' = Append(events, Progress("checking"))
  /\ cpc' = "is_available"
  /\ UNCHANGED <<req, conversion, agentFailure, res>>
  /\ UNCHANGED <<scriptVars, execVars, routeVars, templateVars,
                 previewVars>>

\* await isAgentAvailable(), and the progress reports up to the agent command
AgentAvailability ==
  /\ cpc = "is_available"
  /\ \E agentAvailable \in BOOLEAN :
       IF agentAvailable
       THEN /\ events' = events \o <<Progress("generating"), Progress("building"),
                                     Progress("executing"), Progress("waiting")>>
            /\ cpc' = "exec"
       ELSE /\ events' = Append(events, Progress("template"))
            /\ cpc' = "template"
  /\ UNCHANGED <<req, conversion, agentFailure, res>>
  /\ UNCHANGED <<scriptVars, execVars, routeVars, templateVars,
                 previewVars>>

\* convertPRDToJSONWithAgent from the agent command on, and the catch block
\* of convertPRDToJSON
AgentConversion ==
  /\ cpc = "exec"
  /\ \E outcome \in AgentOutcomes :
       LET parsing == IF outcome \in ExecResolved
                      THEN <<Progress("parsing")>> ELSE <<>>
       IN  IF outcome = "ok"
           THEN /\ events' = events \o parsing \o <<Progress("complete")>>
                /\ conversion' = Resolved("agent", TRUE)
                /\ cpc' = "settled"
                /\ UNCHANGED agentFailure
           ELSE /\ agentFailure' = outcome
                /\ IF CatchAgentError(outcome) = "fallback"
                   THEN /\ events' = events \o parsing
                                       \o <<Progress("error"), Progress("fallback")>>
                        /\ cpc' = "fallback"
                        /\ UNCHANGED conversion
                   ELSE /\ events' = events \o parsing \o <<Progress("error")>>
                        /\ conversion' = Rejected("agent")
                        /\ cpc' = "settled"
  /\ UNCHANGED <<req, res>>
  /\ UNCHANGED <<scriptVars, execVars, routeVars, templateVars,
                 previewVars>>

\* convertPRDToJSONTemplate in the catch block
TemplateFallback ==
  /\ cpc = "fallback"
  /\ \E t \in TemplateOutcomes :
       IF t = "throws"
       THEN /\ events' = Append(events, Progress("error"))
            /\ conversion' = Rejected("template")
       ELSE /\ events' = Append(events, Progress("complete"))
            /\ conversion' = Resolved("template", t = "valid")
  /\ cpc' = "settled"
  /\ UNCHANGED <<req, agentFailure, res>>
  /\ UNCHANGED <<scriptVars, execVars, routeVars, templateVars,
                 previewVars>>

\* return convertPRDToJSONTemplate(...) when the agent is not available
TemplateDirect ==
  /\ cpc = "template"
  /\ \E t \in TemplateOutcomes :
       conversion' = IF t = "throws" THEN Rejected("template")
                     ELSE Resolved("template", t = "valid")
  /\ cpc' = "settled"
  /\ UNCHANGED <<req, events, agentFailure, res>>
  /\ UNCHANGED <<scriptVars, execVars, routeVars, templateVars,
                 previewVars>>

\* router.post('/') after convertPRDToJSON settled
FinishConvert ==
  /\ cpc = "settled"
  /\ LET converted == conversion.state = "resolved"
         valid == conversion.valid
     IN  IF req.useSSE
         THEN /\ events' = Append(events,
                                  Terminal(TerminalStatus(converted, valid)))
              /\ res' = [res EXCEPT !.ended = TRUE]
         ELSE /\ res' = IF ~converted THEN [res EXCEPT !.next = TRUE]
                        ELSE [res EXCEPT !.status = IF valid THEN 200 ELSE 400,
                                         !.ended = TRUE]
              /\ UNCHANGED events
  /\ cpc' = "done"
  /\ UNCHANGED <<req, conversion, agentFailure>>
  /\ UNCHANGED <<scriptVars, execVars, routeVars, templateVars,
                 previewVars>>

NextConvert ==
  \/ HandleConvert
  \/ ConvertStart
  \/ AgentAvailability
  \/ AgentConversion
  \/ TemplateFallback
  \/ TemplateDirect
  \/ FinishConvert

SpecConvert == InitConvert /\ [][NextConvert]_vars

\* ---- execAgentCommand: the callbacks of the child and of the timer ----

MaxChunks == 2

\* timeout arguments: none, and the 180 seconds of the conversion
Timeouts == {0, 180000}

\* exit codes of a close event; -1 is null, the child ended by a signal
ExitCodes == {0, 1, -1}

\* resolve / reject: a settled promise stays as it is
Settle(p, outcome) == IF p.state = "pending" THEN outcome ELSE p

\* if (timeoutId) clearTimeout(timeoutId)
ClearTimeout_Missing(t) == t

ClearTimeout(t) == IF t = "armed" THEN "cleared" ELSE t

InitExec ==
  /\ MainIdle
  /\ pc = "serve"
  /\ timeout \in Timeouts
  /\ timeoutId = IF timeout > 0 THEN "armed" ELSE "none"
  /\ child = Spawned
  /\ stdout = 0
  /\ promise = Pending
  /\ handled = <<>>
  /\ ExtIdle("exec")

\* child.stdout.on('data', ...)
OnData ==
  /\ child.state = "running"
  /\ stdout < MaxChunks
  /\ stdout' = stdout + 1
  /\ UNCHANGED <<timeout, timeoutId, child, promise, handled>>
  /\ UNCHANGED <<scriptVars, convertVars, routeVars, templateVars,
                 previewVars>>

\* the setTimeout callback
OnTimeout ==
  /\ timeoutId = "armed"
  /\ timeoutId' = "fired"
  /\ child' = [child EXCEPT !.signal = "SIGTERM"]
  /\ promise' = Settle(promise, Rejected("Command timeout"))
  /\ handled' = Append(handled, "timeout")
  /\ UNCHANGED <<timeout, stdout>>
  /\ UNCHANGED <<scriptVars, convertVars, routeVars, templateVars,
                 previewVars>>

\* child.on('close', (code) => ...)
OnClose ==
  /\ child.state = "running"
  /\ \E code \in ExitCodes :
       /\ (code = -1 => child.signal # "none")
       /\ promise' = Settle(promise,
                            IF code = 0 THEN Resolved("stdout", TRUE)
                            ELSE Rejected("Command failed"))
       /\ handled' = Append(handled, IF code = 0 THEN "close 0" ELSE "close")
  /\ timeoutId' = ClearTimeout(timeoutId)
  /\ child' = [child EXCEPT !.state = "closed"]
  /\ UNCHANGED <<timeout, stdout>>
  /\ UNCHANGED <<scriptVars, convertVars, routeVars, templateVars,
                 previewVars>>

\* child.on('error', (error) => ...): at most once, before the close event
OnError ==
  /\ child.state = "running"
  /\ ~child.errored
  /\ child' = [child EXCEPT !.errored = TRUE]
  /\ timeoutId' = ClearTimeout(timeoutId)
  /\ promise' = Settle(promise, Rejected("spawn error"))
  /\ handled' = Append(handled, "error")
  /\ UNCHANGED <<timeout, stdout>>
  /\ UNCHANGED <<scriptVars, convertVars, routeVars, templateVars,
                 previewVars>>

NextExec ==
  \/ OnData
  \/ OnTimeout
  \/ OnClose
  \/ OnError

SpecExec == InitExec /\ [][NextExec]_vars

\* ------------------------------------------------------------------------
\* The routes that hand a client's projectPath to fileService.
\* ------------------------------------------------------------------------

\* a path or name of the request: absent, accepted by its validation, or not
FieldKinds == {"none", "good", "bad"}

\* userStories of a client's jsonData: well-formed stories, an empty array,
\* no field, a story without id or title, a value that is no array, a story
\* that is null
StoryKinds == {"good", "empty", "missing", "bad-story", "non-array", "null-story"}

JsonDatas ==
  [present : {TRUE}, project : {"", "JsonProject"},
   branchName : {"", "ralph/a"}, userStories : StoryKinds]
  \cup {[present |-> FALSE, project |-> "", branchName |-> "",
         userStories |-> "missing"]}

Bodies ==
  [projectPath : FieldKinds, featureName : FieldKinds, content : BOOLEAN,
   answers : BOOLEAN, projectName : {"", "Name"}, jsonData : JsonDatas]

\* validateJSON: "valid", "invalid", or "throws" when forEach meets a value
\* it cannot go through
ValidateJSON_StoriesUnchecked(json) ==
  IF json.userStories \in {"non-array", "null-story"} THEN "throws"
  ELSE IF json.project = "" \/ json.branchName = "" THEN "invalid"
  ELSE "valid"

ValidateJSON(json) ==
  IF json.userStories \in {"non-array", "null-story"} THEN "throws"
  ELSE IF \/ json.project = ""
          \/ json.branchName = ""
          \/ json.userStories \in {"missing", "empty", "bad-story"}
       THEN "invalid"
  ELSE "valid"

\* project: projectName || jsonData.project || 'Project'
FinalProject(projectName, jsonProject) ==
  IF projectName # "" THEN projectName
  ELSE IF jsonProject # "" THEN jsonProject
  ELSE "Project"

InitRoutes ==
  /\ MainIdle
  /\ pc = "serve"
  /\ body \in Bodies
  /\ rpc = "request"
  /\ calls = <<>>
  /\ reply = NoReply
  /\ written = ""
  /\ ExtIdle("routes")

\* res.status(code).json(...) / res.json(...)
Answer(route, status) == [route |-> route, status |-> status, next |-> FALSE]

\* next(error)
PassToNext(route) == [route |-> route, status |-> 0, next |-> TRUE]

\* router.post('/save')
SavePrdJson ==
  /\ rpc = "request"
  /\ rpc' = "done"
  /\ IF body.projectPath = "none" \/ ~body.jsonData.present
     THEN /\ reply' = Answer("save", 400)
          /\ UNCHANGED <<calls, written>>
     ELSE IF body.projectPath = "bad"
     THEN /\ calls' = <<"validateProjectPath">>
          /\ reply' = PassToNext("save")
          /\ UNCHANGED written
     ELSE IF ValidateJSON(body.jsonData) # "valid"
     THEN /\ calls' = <<"validateProjectPath">>
          /\ reply' = IF ValidateJSON(body.jsonData) = "throws"
                      THEN PassToNext("save") ELSE Answer("save", 400)
          /\ UNCHANGED written
     ELSE /\ calls' = <<"validateProjectPath", "fileService.savePRDJSON">>
          /\ \E saved \in BOOLEAN :
               IF saved
               THEN /\ reply' = Answer("save", 200)
                    /\ written' = FinalProject(body.projectName,
                                               body.jsonData.project)
               ELSE /\ reply' = PassToNext("save")
                    /\ UNCHANGED written
  /\ UNCHANGED body
  /\ UNCHANGED <<scriptVars, convertVars, execVars, templateVars,
                 previewVars>>

\* validateProjectPath and validateFeatureName, then fileService.savePRD:
\* the common end of create and update
ValidateAndSave(route) ==
  IF body.projectPath = "bad"
  THEN /\ calls' = <<"validateProjectPath">>
       /\ reply' = PassToNext(route)
  ELSE IF body.featureName = "bad"
  THEN /\ calls' = <<"validateProjectPath", "validateFeatureName">>
       /\ reply' = PassToNext(route)
  ELSE \E generated \in BOOLEAN, saved \in BOOLEAN :
         IF route = "create" /\ ~body.content /\ ~body.answers
         THEN /\ calls' = <<"validateProjectPath", "validateFeatureName">>
              /\ reply' = Answer(route, 400)
         ELSE IF route = "create" /\ ~body.content /\ ~generated
         THEN /\ calls' = <<"validateProjectPath", "validateFeatureName">>
              /\ reply' = PassToNext(route)
         ELSE /\ calls' = <<"validateProjectPath", "validateFeatureName",
                            "fileService.savePRD">>
              /\ reply' = IF saved THEN Answer(route, 200)
                          ELSE PassToNext(route)

\* router.post('/create')
CreatePrd ==
  /\ rpc = "request"
  /\ rpc' = "done"
  /\ IF body.projectPath = "none" \/ body.featureName = "none"
     THEN reply' = Answer("create", 400) /\ UNCHANGED calls
     ELSE ValidateAndSave("create")
  /\ UNCHANGED <<body, written>>
  /\ UNCHANGED <<scriptVars, convertVars, execVars, templateVars,
                 previewVars>>

\* router.put('/update')
UpdatePrd ==
  /\ rpc = "request"
  /\ rpc' = "done"
  /\ IF body.projectPath = "none" \/ body.featureName = "none" \/ ~body.content
     THEN reply' = Answer("update", 400) /\ UNCHANGED calls
     ELSE ValidateAndSave("update")
  /\ UNCHANGED <<body, written>>
  /\ UNCHANGED <<scriptVars, convertVars, execVars, templateVars,
                 previewVars>>

\* router.get('/read')
ReadPrd ==
  /\ rpc = "request"
  /\ rpc' = "done"
  /\ IF body.projectPath = "none" \/ body.featureName = "none"
     THEN reply' = Answer("read", 400) /\ UNCHANGED calls
     ELSE /\ calls' = <<"fileService.readPRD">>
          /\ \E found \in BOOLEAN :
               reply' = Answer("read", IF found THEN 200 ELSE 404)
  /\ UNCHANGED <<body, written>>
  /\ UNCHANGED <<scriptVars, convertVars, execVars, templateVars,
                 previewVars>>

\* router.post('/') of the converter up to the markdown: prdPath is the
\* featureName field of the body, prdContent its content field
ConvertFromFile ==
  /\ rpc = "request"
  /\ rpc' = "done"
  /\ IF ~body.content /\ body.featureName # "none" /\ body.projectPath # "none"
     THEN IF body.projectPath = "bad"
          THEN /\ calls' = <<"validateProjectPath">>
               /\ reply' = PassToNext("convert")
          ELSE /\ calls' = <<"validateProjectPath", "fileService.readPRD">>
               /\ \E read \in {"text", "empty", "throws"} :
                    reply' = IF read = "throws" THEN PassToNext("convert")
                             ELSE Answer("convert", IF read = "empty" THEN 400
                                                    ELSE 200)
     ELSE /\ reply' = Answer("convert", IF body.content THEN 200 ELSE 400)
          /\ UNCHANGED calls
  /\ UNCHANGED <<body, written>>
  /\ UNCHANGED <<scriptVars, convertVars, execVars, templateVars,
                 previewVars>>

NextRoutes ==
  \/ SavePrdJson
  \/ CreatePrd
  \/ UpdatePrd
  \/ ReadPrd
  \/ ConvertFromFile

SpecRoutes == InitRoutes /\ [][NextRoutes]_vars

(***************************************************************************)
(* Template conversion (jsonConverter.js): the stories of the parsed PRD   *)
(* get an id and a priority, then orderStoriesByDependencies groups them.  *)
(* A text is a sequence of words; includes() finds a keyword inside a word.*)
(***************************************************************************)
MaxStories == 3

\* String.prototype.toLowerCase on the words stories are made of
ToLowerCase(word) ==
  CASE word = "Database" -> "database"
    [] word = "Schema"   -> "schema"
    [] word = "API"      -> "api"
    [] word = "Page"     -> "page"
    [] word = "Filter"   -> "filter"
    [] word = "Build"    -> "build"
    [] word = "Docs"     -> "docs"
    [] word = "Untitled" -> "untitled"
    [] word = "story"    -> "story"
    [] OTHER             -> word

\* the keywords of the two functions that occur inside a word, case kept:
\* 'build' holds 'ui', and 'Database' holds nothing before it is lower-cased
Fragments(word) ==
  CASE word = "database" -> {"database"}
    [] word = "schema"   -> {"schema"}
    [] word = "api"      -> {"api"}
    [] word = "page"     -> {"page"}
    [] word = "filter"   -> {"filter"}
    [] word = "build"    -> {"ui"}
    [] OTHER             -> {}

\* text.toLowerCase().includes(keyword)
Includes(text, keyword) ==
  \E i \in 1..Len(text) : keyword \in Fragments(ToLowerCase(text[i]))

\* some keyword of the list is in the text
IncludesAny(text, keywords) == \E k \in keywords : Includes(text, k)

\* titles and descriptions of parsed stories; <<>> is the empty string
TitleTexts ==
  {<<>>, <<"Database">>, <<"API">>, <<"Page">>, <<"Filter">>, <<"Build">>,
   <<"Docs">>}

DescriptionTexts == {<<>>, <<"Schema">>}

ParsedStories == [title : TitleTexts, description : DescriptionTexts]

RECURSIVE StoryListsUpTo(_)
StoryListsUpTo(n) ==
  IF n = 0 THEN {<<>>}
  ELSE LET shorter == StoryListsUpTo(n - 1)
       IN  shorter \cup
           {Append(l, st) : l \in {x \in shorter : Len(x) = n - 1},
                            st \in ParsedStories}

\* a || b on strings: the empty string is falsy
OrElse(a, b) == IF a # <<>> THEN a ELSE b

Min(a, b) == IF a <= b THEN a ELSE b

\* determinePriority(story, index, allStories), index counted from 0
DeterminePriority(story, index, allStories) ==
  IF \/ IncludesAny(story.title, {"database", "schema", "table", "migration"})
     \/ IncludesAny(story.description, {"database", "schema"})
  THEN 1
  ELSE IF \/ IncludesAny(story.title, {"api", "backend", "server", "service"})
          \/ IncludesAny(story.description, {"api", "backend"})
  THEN Min(2, Len(allStories))
  ELSE IF \/ IncludesAny(story.title,
                         {"ui", "component", "page", "display", "show"})
          \/ IncludesAny(story.description, {"ui", "component"})
  THEN Min(index + 2, Len(allStories))
  ELSE index + 1

\* parsed.userStories.map(...): id stands for US-00<id>
MapStories(parsed) ==
  [i \in 1..Len(parsed) |->
     [id          |-> i,
      title       |-> OrElse(parsed[i].title, <<"Untitled", "story">>),
      description |-> OrElse(parsed[i].description, parsed[i].title),
      priority    |-> DeterminePriority(parsed[i], i - 1, parsed)]]

\* the if / else-if chain of orderStoriesByDependencies
Category(story) ==
  IF \/ IncludesAny(story.title, {"database", "schema", "table", "migration"})
     \/ IncludesAny(story.description, {"database", "schema"})
  THEN "schema"
  ELSE IF \/ IncludesAny(story.title, {"api", "backend", "server", "service"})
          \/ IncludesAny(story.description, {"api", "backend"})
  THEN "backend"
  ELSE IF \/ IncludesAny(story.title,
                         {"ui", "component", "page", "display", "show",
                          "filter", "dropdown"})
          \/ IncludesAny(story.description, {"ui", "component"})
  THEN "ui"
  ELSE "other"

\* the stories pushed to one of the four arrays, in input order
StoriesOf(stories, category) ==
  LET InCategory(story) == Category(story) = category
  IN  SelectSeq(stories, InCategory)

\* ordered.forEach((story, index) => story.priority = index + 1) left out
OrderStoriesByDependencies_PriorityKept(stories) ==
  StoriesOf(stories, "schema") \o StoriesOf(stories, "backend")
    \o StoriesOf(stories, "ui") \o StoriesOf(stories, "other")

\* orderStoriesByDependencies(stories)
OrderStoriesByDependencies(stories) ==
  LET ordered == StoriesOf(stories, "schema") \o StoriesOf(stories, "backend")
                   \o StoriesOf(stories, "ui") \o StoriesOf(stories, "other")
  IN  [index \in 1..Len(ordered) |->
         [ordered[index] EXCEPT !.priority = index]]

InitTemplate ==
  /\ MainIdle
  /\ pc = "serve"
  /\ parsedStories \in StoryListsUpTo(MaxStories)
  /\ userStories = <<>>
  /\ orderedStories = <<>>
  /\ tpc = "template"
  /\ ExtIdle("template")

\* convertPRDToJSONTemplate: userStories keeps the stories as they were
\* handed to orderStoriesByDependencies
ConvertPRDToJSONTemplate ==
  /\ tpc = "template"
  /\ userStories' = MapStories(parsedStories)
  /\ orderedStories' = OrderStoriesByDependencies(userStories')
  /\ tpc' = "done"
  /\ UNCHANGED <<scriptVars, convertVars, execVars, routeVars, parsedStories,
                 previewVars>>

NextTemplate == ConvertPRDToJSONTemplate

SpecTemplate == InitTemplate /\ [][NextTemplate]_vars

(***************************************************************************)
(* JSONPreview.tsx: the effect on [prdContent, projectPath], the Retry and *)
(* Regenerate buttons and the async convertPRD, cut at its await: the part *)
(* up to fetch() runs at once, the rest when the response stream has ended.*)
(***************************************************************************)
MaxChanges == 2
MaxRequests == 3

\* PRD texts the parent can pass as prdContent
Contents == {"prd1", "prd2", "prd3"}

\* how a request ends: a 'done' event with json, an 'error' event (thrown
\* and swallowed inside the line loop), a stream that ends with neither,
\* a response that is not ok, a response without body, a rejected fetch
StreamOutcomes == {"done", "error", "ended", "notOk", "noBody", "rejected"}

\* finalJson after the read loop, "" for null
FinalJson(outcome, content) == IF outcome = "done" THEN content ELSE ""

\* the three returns of the component function
ViewOf(isConverting, hasError) ==
  IF isConverting THEN "converting"
  ELSE IF hasError THEN "error"
  ELSE "preview"

\* the guard of convertPRD switched off
AlreadyConverting_Never(inProgress) == FALSE

\* if (conversionInProgress.current) return
AlreadyConverting(inProgress) == inProgress

\* first render of a mounted component; StrictMode runs the effect twice
InitPreview ==
  /\ MainIdle
  /\ pc = "serve"
  /\ prdContent \in Contents
  /\ conversionInProgress = FALSE
  /\ lastConvertedContent = ""
  /\ jsonData = ""
  /\ converting = FALSE
  /\ error = FALSE
  /\ view = ViewOf(FALSE, FALSE)
  /\ requests = {}
  /\ pendingEffects \in {1, 2}
  /\ nRequests = 0
  /\ nChanges = 0
  /\ changedInFlight = FALSE
  /\ outcomes = {}
  /\ ExtIdle("preview")

\* convertPRD up to the await of fetch()
ConvertPRD ==
  IF AlreadyConverting(conversionInProgress)
  THEN /\ outcomes' = outcomes \cup {"callSkipped"}
       /\ UNCHANGED <<conversionInProgress, lastConvertedContent, converting,
                      error, requests, nRequests>>
  ELSE /\ nRequests < MaxRequests
       /\ conversionInProgress' = TRUE
       /\ lastConvertedContent' = prdContent
       /\ converting' = TRUE
       /\ error' = FALSE
       /\ requests' = requests \cup
                        {[id |-> nRequests + 1, prdContent |-> prdContent]}
       /\ nRequests' = nRequests + 1
       /\ UNCHANGED outcomes

\* useEffect(() => {...}, [prdContent, projectPath])
RunEffect ==
  /\ pendingEffects > 0
  /\ pendingEffects' = pendingEffects - 1
  /\ IF conversionInProgress \/ lastConvertedContent = prdContent
     THEN /\ outcomes' = outcomes \cup {"effectSkipped"}
          /\ UNCHANGED <<conversionInProgress, lastConvertedContent,
                         converting, error, requests, nRequests>>
     ELSE ConvertPRD
  /\ UNCHANGED <<scriptVars, convertVars, execVars, routeVars, templateVars,
                 prdContent, jsonData, view, nChanges, changedInFlight>>

\* onClick={convertPRD} of Retry or Regenerate, as last rendered
Click ==
  /\ view \in {"error", "preview"}
  /\ ConvertPRD
  /\ UNCHANGED <<scriptVars, convertVars, execVars, routeVars, templateVars,
                 prdContent, jsonData, view, pendingEffects, nChanges,
                 changedInFlight>>

\* React renders the component after a state update
Render ==
  /\ view # ViewOf(converting, error)
  /\ view' = ViewOf(converting, error)
  /\ UNCHANGED <<scriptVars, convertVars, execVars, routeVars, templateVars,
                 prdContent, conversionInProgress, lastConvertedContent,
                 jsonData, converting, error, requests, pendingEffects,
                 nRequests, nChanges, changedInFlight, outcomes>>

\* the parent passes another prdContent: render, then the effect is due
ChangeContent ==
  /\ nChanges < MaxChanges
  /\ pendingEffects = 0
  /\ \E content \in Contents \ {prdContent} : prdContent' = content
  /\ view' = ViewOf(converting, error)
  /\ pendingEffects' = 1
  /\ nChanges' = nChanges + 1
  /\ changedInFlight' = (changedInFlight \/ requests # {})
  /\ UNCHANGED <<scriptVars, convertVars, execVars, routeVars, templateVars,
                 conversionInProgress, lastConvertedContent, jsonData,
                 converting, error, requests, nRequests, outcomes>>

\* the parent passes another projectPath: render, then the effect is due
ChangeProjectPath ==
  /\ nChanges < MaxChanges
  /\ pendingEffects = 0
  /\ view' = ViewOf(converting, error)
  /\ pendingEffects' = 1
  /\ nChanges' = nChanges + 1
  /\ UNCHANGED <<scriptVars, convertVars, execVars, routeVars, templateVars,
                 prdContent, conversionInProgress, lastConvertedContent,
                 jsonData, converting, error, requests, nRequests,
                 changedInFlight, outcomes>>

\* convertPRD after the response: try, catch and finally
SettleConversion ==
  /\ \E request \in requests, outcome \in StreamOutcomes :
       LET finalJson == FinalJson(outcome, request.prdContent)
       IN  /\ requests' = requests \ {request}
           /\ IF finalJson # ""
              THEN /\ jsonData' = finalJson
                   /\ outcomes' = outcomes \cup {"done"}
                   /\ UNCHANGED error
              ELSE /\ error' = TRUE
                   /\ outcomes' = outcomes \cup {"failed"}
                   /\ UNCHANGED jsonData
  /\ converting' = FALSE
  /\ conversionInProgress' = FALSE
  /\ UNCHANGED <<scriptVars, convertVars, execVars, routeVars, templateVars,
                 prdContent, lastConvertedContent, view, pendingEffects,
                 nRequests, nChanges, changedInFlight>>

NextPreview ==
  \/ RunEffect
  \/ Click
  \/ Render
  \/ ChangeContent
  \/ ChangeProjectPath
  \/ SettleConversion

SpecPreview == InitPreview /\ [][NextPreview]_vars

Terminated == pc \in {"exit_complete", "exit_errors", "exit_max"}

\* the positions of the k latest entries of the history
LastK(k) == (Len(recent) - k + 1)..Len(recent)

\* the k latest invocations all returned a signature (exact casing)
LastSig(k) == Len(recent) >= k /\ \A i \in LastK(k) : recent[i].sig

\* the k latest invocations all returned a signature and the marker
LastBoth(k) == Len(recent) >= k /\ \A i \in LastK(k) : recent[i].sig /\ recent[i].marker

\* the k latest invocations were all handled as connection error
LastErr(k) == Len(recent) >= k /\ \A i \in LastK(k) : recent[i].err

\* number of latest invocations handled as connection error, counted back to
\* the most recent one that was not (or to the start of the history)
TrailingErrors ==
  CHOOSE k \in 0..Len(recent) :
    /\ LastErr(k)
    /\ (k < Len(recent) => ~recent[Len(recent) - k].err)

TypeOK ==
  /\ variant \in {"sh", "ps1"}
  /\ MAX_ITERATIONS \in ArgMaxIterations
  /\ pc \in {"while", "run_agent", "check", "exit_complete", "exit_errors", "exit_max"}
  /\ ITERATION \in 1..(MaxIter + 1)
  /\ CONSECUTIVE_ERRORS \in 0..MAX_RETRIES
  /\ OUTPUT \in Outputs
  /\ exitCode \in {-1, 0, 1}

\* ------------------------------------------------------------------------
\* Properties
\* ------------------------------------------------------------------------

\* C1: Completion short-circuits the remaining budget.  For maxIterations >= 1
\* and an iteration number k <= maxIterations, when the output just returned
\* holds the completion marker and no connection-error signature (both with
\* their exact casing), the next step of the driver is the exit with code 0 in
\* Succeeded, without a further invocation or sleep, and nothing happens after.
C1_CompletionShortCircuits ==
  [][ /\ ( /\ pc = "check"
           /\ MAX_ITERATIONS >= 1
           /\ ITERATION <= MAX_ITERATIONS
           /\ HasMarker(OUTPUT)
           /\ ~HasSignature(OUTPUT) )
         => ( /\ State' = "Succeeded"
              /\ exitCode' = 0
              /\ invocations' = invocations
              /\ nSleeps' = nSleeps )
      /\ (State = "Succeeded" => invocations' = invocations /\ nSleeps' = nSleeps)
    ]_vars

\* C2: Error budget enforcement.  When the output just returned is the third
\* in a row to hold a connection-error signature, the next step of the driver
\* is the exit with code 1 in FailedTooManyErrors, without a sleep; no
\* invocation follows it.
C2_ErrorBudgetEnforced ==
  [][ /\ ( /\ pc = "check"
           /\ HasSignature(OUTPUT)
           /\ LastSig(MAX_RETRIES - 1) )
         => ( /\ State' = "FailedTooManyErrors"
              /\ exitCode' = 1
              /\ nSleeps' = nSleeps
              /\ invocations' = invocations )
      /\ (State = "FailedTooManyErrors" => invocations' = invocations /\ nSleeps' = nSleeps)
    ]_vars

\* C2 witness: the run was aborted right after three signature outputs in a row
C2_Witness ==
  /\ State = "FailedTooManyErrors"
  /\ exitCode = 1
  /\ invocations >= MAX_RETRIES
  /\ LastSig(MAX_RETRIES)

\* C3: Transient errors do not consume iteration budget.  Handling an output
\* as connection error leaves the iteration counter unchanged, and the
\* invocation after it is made with the same iteration number; when the first
\* n < 3 outputs of a run all hold a signature, the iteration counter is 1 and
\* the consecutive-error counter is n once the n-th has been handled.
C3_ErrorsKeepIteration ==
  /\ [][ (pc = "check" /\ Classify(variant, OUTPUT) = "error")
           => ITERATION' = ITERATION ]_vars
  /\ [](\A i \in 1..(Len(recent) - 1) :
           recent[i].err => recent[i + 1].iter = recent[i].iter)
  /\ []( ( /\ pc \in {"run_agent", "check"}
           /\ LastErr(1) )
         => ITERATION = recent[Len(recent)].iter )
  /\ []( ( /\ pc # "check"
           /\ invocations < MAX_RETRIES
           /\ LastSig(invocations) )
         => (ITERATION = 1 /\ CONSECUTIVE_ERRORS = invocations) )

\* C3 witness: two signature outputs were handled and the agent is about to
\* be invoked a third time, still for iteration 1
C3_Witness ==
  /\ pc = "run_agent"
  /\ invocations = 2
  /\ LastSig(2)
  /\ ITERATION = 1
  /\ CONSECUTIVE_ERRORS = 2

\* C4: Max-iteration termination.  While no output has held the completion
\* marker or a connection-error signature (exact casing), every invocation
\* advances the iteration counter by one, and the run can only end in
\* FailedMaxIterations with exit code 1 after exactly maxIterations
\* invocations.
C4_MaxIterationTermination ==
  ~everMatched =>
    /\ (pc \in {"while", "run_agent"} => ITERATION = invocations + 1)
    /\ (pc = "check" => ITERATION = invocations)
    /\ invocations <= MAX_ITERATIONS
    /\ Terminated => ( /\ State = "FailedMaxIterations"
                       /\ exitCode = 1
                       /\ invocations = MAX_ITERATIONS )

\* C5: The number of invocations handled as completion or continue is at most
\* maxIterations.
C5_ProductiveBound == productive <= MAX_ITERATIONS

\* C5 witness: the whole budget of at least two iterations was used by
\* productive invocations, with retried connection errors in between
C5_Witness ==
  /\ MAX_ITERATIONS >= 2
  /\ productive = MAX_ITERATIONS
  /\ invocations > productive

\* C6: Error counter reset.  Handling an output without connection-error
\* signature (exact casing) sets consecutiveErrors to 0, and the run reaches
\* FailedTooManyErrors only when the three latest outputs all held a signature.
C6_ErrorCounterReset ==
  /\ [][ (pc = "check" /\ ~HasSignature(OUTPUT)) => CONSECUTIVE_ERRORS' = 0 ]_vars
  /\ [](State = "FailedTooManyErrors" => LastSig(MAX_RETRIES))

\* C7: Classification priority.  An output holding both a connection-error
\* signature and the completion marker increments consecutiveErrors and does
\* not lead to Succeeded; the third such output in a row ends the run in
\* FailedTooManyErrors with exit code 1.
C7_ErrorBeforeCompletion ==
  [][ (pc = "check" /\ HasSignature(OUTPUT) /\ HasMarker(OUTPUT))
        => /\ CONSECUTIVE_ERRORS' = CONSECUTIVE_ERRORS + 1
           /\ State' # "Succeeded"
           /\ LastBoth(MAX_RETRIES - 1)
                => (State' = "FailedTooManyErrors" /\ exitCode' = 1)
    ]_vars

\* C7 witness: the run was aborted although each of the three latest outputs
\* held the completion marker next to a signature
C7_Witness ==
  /\ State = "FailedTooManyErrors"
  /\ exitCode = 1
  /\ LastBoth(MAX_RETRIES)
  /\ HasMarker(OUTPUT)

\* C8: Exit codes.  A run that made at least one invocation ends with code 0
\* exactly when the output of its last invocation held the completion marker
\* and no connection-error signature (exact casing), and with code 1 otherwise.
C8_ExitCodes ==
  (Terminated /\ invocations >= 1) =>
    /\ exitCode \in {0, 1}
    /\ exitCode = 0 <=> (HasMarker(OUTPUT) /\ ~HasSignature(OUTPUT))

\* the parts of C9 that do not concern the upper bound: the counter starts at
\* 1, never decreases, and grows by exactly one, only when an output is
\* handled as continue
IterationStartsAtOne == (invocations = 0 => ITERATION = 1)
IterationSteps ==
  /\ ITERATION' \in {ITERATION, ITERATION + 1}
  /\ ITERATION' # ITERATION => (pc = "check" /\ Classify(variant, OUTPUT) = "continue")

\* C9 as stated: ... and the iteration counter never exceeds maxIterations
\* (here for maxIterations >= 1).
C9_Original ==
  /\ []IterationStartsAtOne
  /\ [][IterationSteps]_vars
  /\ [](MAX_ITERATIONS >= 1 => ITERATION <= MAX_ITERATIONS)

\* C9 amended: the iteration counter starts at 1, never decreases, grows by
\* exactly one and only when an output is handled as continue; it is at most
\* maxIterations whenever the agent is invoked or its output handled, and
\* never exceeds maxIterations + 1, the value with which the loop ends.
C9_IterationCounter ==
  /\ []IterationStartsAtOne
  /\ [][IterationSteps]_vars
  /\ [](pc \in {"run_agent", "check"} => ITERATION <= MAX_ITERATIONS)
  /\ [](ITERATION <= MAX_ITERATIONS + 1)

\* C9 witness: the budget of at least two iterations is used up and the
\* counter stands at maxIterations + 1
C9_Witness ==
  /\ MAX_ITERATIONS >= 2
  /\ State = "FailedMaxIterations"
  /\ ITERATION = MAX_ITERATIONS + 1

\* C10: Consecutive-error counter invariant.  Whenever the driver is about to
\* invoke the agent, consecutiveErrors is the number of invocations made since
\* the most recent one not handled as connection error (or since the start)
\* and lies in 0..2; it is 3 only in the state that aborts the run.
C10_ConsecutiveErrors ==
  /\ pc \in {"while", "run_agent"} =>
       (CONSECUTIVE_ERRORS = TrailingErrors /\ CONSECUTIVE_ERRORS \in 0..(MAX_RETRIES - 1))
  /\ CONSECUTIVE_ERRORS \in 0..MAX_RETRIES
  /\ CONSECUTIVE_ERRORS = MAX_RETRIES => State = "FailedTooManyErrors"

\* C10 witness: an error, a reset by a non-error and a new error; the agent is
\* about to be invoked with consecutiveErrors = 1
C10_Witness ==
  /\ pc = "run_agent"
  /\ Len(recent) = 3
  /\ recent[1].err /\ ~recent[2].err /\ recent[3].err
  /\ CONSECUTIVE_ERRORS = 1

\* the three outcomes of handling an output, read off the step taken
OutcomeError ==
  /\ CONSECUTIVE_ERRORS' = CONSECUTIVE_ERRORS + 1
  /\ ITERATION' = ITERATION
  /\ productive' = productive
  /\ \/ (pc' = "while" /\ nSleeps' = nSleeps + 1)
     \/ State' = "FailedTooManyErrors"
OutcomeComplete ==
  /\ State' = "Succeeded"
  /\ ITERATION' = ITERATION
  /\ productive' = productive + 1
OutcomeContinue ==
  /\ ITERATION' = ITERATION + 1
  /\ pc' = "while"
  /\ productive' = productive + 1

\* C11: No invocation is silently skipped.  Every output returned by the agent
\* is handled before the next invocation or the end of the run, and handling
\* it has exactly one of the outcomes transient-error (retry or abort),
\* completion (Succeeded) and continue (iteration counter + 1): the one the
\* two tests of the loop body select for that output.
C11_ExactlyOneOutcome ==
  /\ [][ pc = "check" =>
           /\ OutcomeError <=> Classify(variant, OUTPUT) = "error"
           /\ OutcomeComplete <=> Classify(variant, OUTPUT) = "complete"
           /\ OutcomeContinue <=> Classify(variant, OUTPUT) = "continue"
           /\ invocations' = invocations
           /\ pc' # "check" ]_vars
  /\ [][ invocations' # invocations => (pc = "run_agent" /\ pc' = "check") ]_vars
  /\ [](pc = "check" => ENABLED <<Next>>_vars)
  /\ [](Terminated => pc # "check")

\* C11 witness: a run in which the three outcomes occurred one after the
\* other: a retried error, a continue and the completion
C11_Witness ==
  /\ State = "Succeeded"
  /\ invocations = 3
  /\ Len(recent) = 3
  /\ recent[1].err /\ ~recent[2].err /\ ~recent[3].err
  /\ recent[2].iter = 1 /\ recent[3].iter = 2

\* C12: Linear backoff.  Before each retry the driver sleeps 10 seconds times
\* consecutiveErrors, the length of the current error streak including the
\* error just handled: 10s after the first error of a streak, 20s after the
\* second; the sleep leaves the counter as it is.
C12_LinearBackoff ==
  [][ (pc = "check" /\ Classify(variant, OUTPUT) = "error" /\ pc' = "while")
        => /\ nSleeps' = nSleeps + 1
           /\ CONSECUTIVE_ERRORS' = TrailingErrors'
           /\ lastSleep' = 10 * CONSECUTIVE_ERRORS'
           /\ (CONSECUTIVE_ERRORS = 0 => lastSleep' = 10)
           /\ (CONSECUTIVE_ERRORS = 1 => lastSleep' = 20)
    ]_vars

\* C12 witness: the second error of a streak was followed by a sleep of 20s
C12_Witness ==
  /\ pc = "while"
  /\ LastErr(2)
  /\ CONSECUTIVE_ERRORS = 2
  /\ lastSleep = 20

\* what is left of the two budgets
Measure == MAX_RETRIES * (MAX_ITERATIONS + 1 - ITERATION) - CONSECUTIVE_ERRORS

\* C18: Termination.  Provided every agent invocation returns, every run
\* reaches Succeeded, FailedMaxIterations or FailedTooManyErrors, whatever the
\* outputs are: handling an output either ends the run or uses up part of
\* what is left of the two budgets, which is never negative.
C18_Termination ==
  /\ <>Terminated
  /\ [][ pc = "check" => (Terminated' \/ Measure' < Measure) ]_vars
  /\ [](~Terminated => Measure >= 0)

\* C18 witness: the longest run, errors and continues interleaved, has ended
\* with the iteration budget used up
C18_Witness ==
  /\ MAX_ITERATIONS >= 2
  /\ State = "FailedMaxIterations"
  /\ invocations = MAX_RETRIES * MAX_ITERATIONS

\* C19: Total invocation bound.  The number of agent invocations of a run,
\* productive and retried, is at most 3 * maxIterations.
C19_TotalInvocationBound == invocations <= 3 * MAX_ITERATIONS

\* C19 witness: a budget of at least two iterations and 3 * maxIterations
\* invocations made, the last one being handled
C19_Witness ==
  /\ MAX_ITERATIONS >= 2
  /\ pc = "check"
  /\ invocations = 3 * MAX_ITERATIONS

\* C20: Continue step.  Handling an output as continue sets consecutiveErrors
\* to 0, increments the iteration counter by exactly one and sleeps the fixed
\* 2 seconds, after which the loop condition is evaluated; this holds for
\* every such output of the run.
C20_ContinueStep ==
  [][ (pc = "check" /\ Classify(variant, OUTPUT) = "continue")
        => /\ CONSECUTIVE_ERRORS' = 0
           /\ ITERATION' = ITERATION + 1
           /\ nSleeps' = nSleeps + 1
           /\ lastSleep' = 2
           /\ pc' = "while"
           /\ invocations' = invocations
    ]_vars

\* C20 witness: the second continue of a run, made after an error streak, has
\* been followed by the 2s sleep
C20_Witness ==
  /\ pc = "while"
  /\ ITERATION = 3
  /\ Len(recent) = 3
  /\ recent[2].err /\ ~recent[3].err
  /\ CONSECUTIVE_ERRORS = 0
  /\ lastSleep = 2

\* C13: Transient-error matching is case-sensitive in both script variants.
\* An output is handled as connection error exactly when it holds one of
\* ConnectError, ETIMEDOUT, ECONNRESET, ENOTFOUND, "connection refused" and
\* "Connection refused" in that casing; an output whose only match is a
\* differently-cased form is not handled as connection error.
C13_CaseSensitiveMatching ==
  [][ pc = "check" => (OutcomeError <=> HasSignature(OUTPUT)) ]_vars

\* C15: Once the loop is entered, a run fails only by using up the error
\* budget or the iteration budget.  No invocation ends the run, whatever the
\* exit status of the agent and also when the output is empty; the script
\* then handles the output, and how depends on the captured text alone.
C15_OnlyBudgetsAreFatal ==
  /\ [][ pc = "run_agent" => (pc' = "check" /\ exitCode' = -1) ]_vars
  /\ [][ (pc = "check" /\ (agentStatus # 0 \/ OUTPUT = <<>>))
           => /\ OutcomeError <=> Classify(variant, OUTPUT) = "error"
              /\ OutcomeComplete <=> Classify(variant, OUTPUT) = "complete"
              /\ OutcomeContinue <=> Classify(variant, OUTPUT) = "continue" ]_vars
  /\ [](exitCode # -1 => Terminated)
  /\ [](exitCode \notin {-1, 0} =>
          (exitCode = 1 /\ State \in {"FailedTooManyErrors", "FailedMaxIterations"}))

\* C15 witness: the agent ended with a non-zero status and printed nothing;
\* the run went on to the next iteration, where the agent ended with a
\* non-zero status again and the run succeeded
C15_Witness ==
  /\ State = "Succeeded"
  /\ agentStatus # 0
  /\ Len(recent) = 2
  /\ recent[1].iter = 1 /\ ~recent[1].err /\ ~recent[1].marker
  /\ recent[2].iter = 2

\* C14: The two script variants implement one state machine.  Started with
\* the same maxIterations and given the same sequence of agent outputs,
\* ralph.sh and ralph.ps1 make the same number of invocations, perform the
\* same sequence of sleeps and end in the same terminal state with the same
\* exit code.
C14_VariantsAgree ==
  (runs["sh"].state # "Running" /\ runs["ps1"].state # "Running") =>
    /\ runs["sh"].invocations = runs["ps1"].invocations
    /\ runs["sh"].sleeps = runs["ps1"].sleeps
    /\ runs["sh"].state = runs["ps1"].state
    /\ runs["sh"].exitCode = runs["ps1"].exitCode

\* a precondition of the loop does not hold: the worker name is not one of
\* the enumerated workers, or the worker's executable or jq does not resolve
PreconditionFails ==
  \/ WORKER \notin {"cursor", "amp"}
  \/ WORKER = "cursor" /\ "agent" \notin installed
  \/ WORKER = "amp" /\ "amp" \notin installed
  \/ "jq" \notin installed

\* the command line was read to its end without a usage error or --help
ArgumentsRead == pc \notin {"parse", "exit_help", "exit_usage"}

\* C16: Precondition failures never enter Running.  When the command line
\* has been read and the worker name is not one of the enumerated workers,
\* or the executable of the selected worker or jq cannot be resolved, the
\* script is in, or on its way to, an exit with code 1.  Whatever the
\* command line, while such a precondition fails the script has made no
\* agent invocation, has not entered the loop, and no archive, .last-branch,
\* progress-file or git-branch side effect has happened.
C16_PreconditionFailures ==
  /\ PreconditionFails =>
       /\ invocations = 0
       /\ effects = {}
       /\ pc \in {"parse", "exit_help", "exit_usage",
                   "worker", "jq", "exit_worker", "exit_jq"}
  /\ (ArgumentsRead /\ PreconditionFails) =>
       /\ pc \in {"worker", "jq", "exit_worker", "exit_jq"}
       /\ (pc \in {"exit_worker", "exit_jq"} => exitCode = 1)
       /\ (pc \in {"worker", "jq"} => exitCode = -1)

C16_Witness ==
  /\ pc = "exit_jq"
  /\ WORKER = "amp"
  /\ "amp" \in installed
  /\ "jq" \notin installed
  /\ exitCode = 1

\* C17: The maximum-iteration count a run starts with is always a positive
\* integer: whenever the loop condition is tested, maxIterations >= 1, and a
\* run that ends because maxIterations is reached made at least one agent
\* invocation.
C17_PositiveMaxIterations ==
  /\ (pc \in {"while", "run_agent"} => MAX_ITERATIONS >= 1)
  /\ (pc = "exit_max" => invocations >= 1)

\* 2^n
RECURSIVE Pow2(_)
Pow2(n) == IF n = 0 THEN 1 ELSE 2 * Pow2(n - 1)

\* C21: Every backoff wait the driver performs follows the schedule 10s, 20s,
\* 40s, ...: the wait after the i-th consecutive error of a streak is
\* 10 * 2^(i-1) seconds, for every i at which the driver waits.
C21_ExponentialSchedule ==
  [][ (pc = "check" /\ Classify(variant, OUTPUT) = "error" /\ pc' = "while")
        => /\ nSleeps' = nSleeps + 1
           /\ CONSECUTIVE_ERRORS' = TrailingErrors'
           /\ lastSleep' = 10 * Pow2(CONSECUTIVE_ERRORS' - 1)
    ]_vars

\* C21 witness: the wait after the second error of a streak, the last one at
\* which the driver waits, has just been performed
C21_Witness ==
  /\ pc = "while"
  /\ Len(recent) >= 2
  /\ TrailingErrors = 2
  /\ nSleeps >= 2
  /\ lastSleep = 10 * Pow2(1)
  /\ WAIT_TIME = 20

\* the script directory and its first three parents
Checked == {d \in 0..SCRIPT_DIR : d >= SCRIPT_DIR - 3}

\* C22: Project-root discovery.  The script checks its own directory and then
\* up to three parent directories for prd.json: the project root is the
\* nearest of them that holds prd.json, and the script directory if none of
\* them does, at every depth of the script directory.
C22_ProjectRoot ==
  pc = "root_done" =>
    IF \E d \in Checked : d \in prdAt
    THEN /\ PROJECT_ROOT \in Checked \cap prdAt
         /\ \A d \in Checked \cap prdAt : d <= PROJECT_ROOT
    ELSE PROJECT_ROOT = SCRIPT_DIR

\* the positions of the git commands of one kind in gitCalls
CallsOf(cmds) == {i \in 1..Len(gitCalls) : gitCalls[i].cmd \in cmds}

\* C23: Branch-setup stash discipline.  Whenever the branch setup finds
\* uncommitted changes, staged or unstaged, and switches branches, it has
\* run git stash before the checkout; and whenever it stashed, it has run
\* git stash pop by the time the script proceeds to the main loop or exits.
C23_StashDiscipline ==
  /\ \A i \in CallsOf({"checkout", "checkout -b"}) :
       (unstaged \/ staged) => \E j \in CallsOf({"stash"}) : j < i
  /\ (/\ pc \in {"while", "exit_git"}
      /\ \E j \in CallsOf({"stash"}) : gitCalls[j].status = 0)
       => CallsOf({"pop"}) # {}

\* C24: Archive bookkeeping.  A start archives the previous run and resets
\* the progress file if and only if prd.json and .last-branch both held
\* non-empty, different branch names; after the start .last-branch holds the
\* branch name of prd.json whenever that is non-empty.  So a second start
\* with an unchanged prd.json archives nothing and resets nothing.
C24_ArchiveBookkeeping ==
  starts > 0 =>
    /\ lastStart.archived =
         (lastStart.prd # "" /\ lastStart.last # "" /\ lastStart.prd # lastStart.last)
    /\ lastStart.reset = lastStart.archived
    /\ (prdBranch = lastStart.prd /\ prdBranch # ""
          => NameIn(lastBranchFile) = prdBranch)

\* the agent was not available: the conversion went to the template directly
AgentUnavailable ==
  \E i \in 1..Len(events) : events[i] = Progress("template")

\* C25: Best-effort conversion with template fallback.  Whenever the agent is
\* unavailable or the agent conversion fails, for whatever reason,
\* convertPRDToJSON returns the result of the template conversion; a failure
\* of the agent is never what the call rejects with: it rejects only when the
\* template conversion itself throws.
C25_TemplateFallback ==
  /\ (cpc = "settled" => conversion.state \in {"resolved", "rejected"})
  /\ conversion.state # "pending" =>
    /\ cpc \in {"settled", "done"}
    /\ (AgentUnavailable \/ agentFailure # "none") =>
         \/ conversion.state = "resolved" /\ conversion.value = "template"
         \/ conversion.state = "rejected" /\ conversion.error = "template"
    /\ conversion.error # "agent"
    /\ (conversion.state = "resolved" /\ conversion.value = "agent") =>
         (agentFailure = "none" /\ ~AgentUnavailable)

\* C25 witness: the agent command timed out and the template result was returned
C25_Witness ==
  /\ cpc = "settled"
  /\ agentFailure = "timeout"
  /\ conversion = Resolved("template", TRUE)

\* the request is answered as an event stream
Streaming == req.useSSE /\ res.status = 200

\* the events the handler itself wrote
TerminalEvents == {i \in 1..Len(events) : events[i].by = "handler"}

\* C27: SSE conversion stream protocol.  The response to a request with
\* useSSE and markdown is a run of progress events, then exactly one terminal
\* event, then the end of the stream.  The terminal event has status 'done'
\* if and only if the conversion succeeded and validateJSON found the result
\* valid, and status 'error' otherwise; nothing is written after it, and the
\* error is not passed to next().
C27_StreamProtocol ==
  /\ [](Streaming =>
         /\ ~res.next
         /\ TerminalEvents \subseteq {Len(events)}
         /\ res.ended = (TerminalEvents # {})
         /\ (cpc = "done" => res.ended)
         /\ res.ended =>
              /\ events[Len(events)].status \in {"done", "error"}
              /\ events[Len(events)].status = "done"
                   <=> (conversion.state = "resolved" /\ conversion.valid))
  /\ [][ (Streaming /\ res.ended) => UNCHANGED <<events, res>> ]_vars

\* C27 witness: the template result has no user stories, the stream ends
\* with the terminal event 'error' after the progress events
C27_Witness ==
  /\ Streaming
  /\ cpc = "done"
  /\ conversion = Resolved("template", FALSE)
  /\ Len(events) > 1
  /\ events[Len(events)] = Terminal("error")

\* C26: execAgentCommand settles exactly once, whatever the order of the
\* close event, the error event and the timer.  It resolves only if the
\* child closed with exit code 0 before the timer fired.  If the timer fires
\* first, the child is sent SIGTERM and the promise rejects with 'Command
\* timeout', and no later close or error event changes that.  When close or
\* error comes first, the timer is cleared and never fires.
C26_SettlesOnce ==
  /\ [][promise.state # "pending" => promise' = promise]_vars
  /\ [](promise.state = "pending" <=> handled = <<>>)
  /\ [](promise.state = "resolved" <=> (handled # <<>> /\ handled[1] = "close 0"))
  /\ []((handled # <<>> /\ handled[1] = "timeout") =>
          /\ child.signal = "SIGTERM"
          /\ promise = Rejected("Command timeout"))
  /\ []((handled # <<>> /\ handled[1] # "timeout") =>
          /\ timeoutId \in {"none", "cleared"}
          /\ child.signal = "none"
          /\ \A i \in 1..Len(handled) : handled[i] # "timeout")

\* C26 witness: the timer fired, then the killed child closed
C26_Witness ==
  /\ Len(handled) = 2
  /\ handled[1] = "timeout"
  /\ handled[2] \in {"close", "close 0"}
  /\ child.state = "closed"
  /\ promise = Rejected("Command timeout")

\* the calls of fileService in calls
FileServiceCalls ==
  {i \in 1..Len(calls) :
     calls[i] \in {"fileService.savePRDJSON", "fileService.savePRD",
                   "fileService.readPRD"}}

\* a jsonData that has a project, a branch name and well-formed stories
WellFormed(json) ==
  json.present /\ json.project # "" /\ json.branchName # ""
    /\ json.userStories = "good"

\* C28: POST /api/convert/save writes prd.json only when projectPath and
\* jsonData are present, the path validates and jsonData is valid.  On every
\* request it rejects, fileService.savePRDJSON is not called and nothing is
\* written.  When it writes, the project field is projectName if given,
\* else jsonData.project, else 'Project'.
C28_SaveWritesOnlyValid ==
  reply.route = "save" =>
    LET called == \E i \in 1..Len(calls) : calls[i] = "fileService.savePRDJSON"
        accepted == body.projectPath = "good" /\ WellFormed(body.jsonData)
    IN  /\ called <=> accepted
        /\ ~accepted =>
             /\ reply.status = 400 \/ reply.next
             /\ FileServiceCalls = {}
             /\ written = ""
        /\ reply.status = 200 =>
             written = (IF body.projectName # "" THEN body.projectName
                        ELSE IF body.jsonData.project # ""
                             THEN body.jsonData.project
                        ELSE "Project")
        /\ written # "" => (reply.status = 200 /\ called)

\* C28 witness: without projectName, the project of jsonData was written
C28_Witness ==
  /\ reply = Answer("save", 200)
  /\ body.projectName = ""
  /\ written = "JsonProject"
  /\ calls = <<"validateProjectPath", "fileService.savePRDJSON">>

\* C29: Every route handler that passes a client-supplied projectPath to
\* fileService (create, read, update, convert from file, save) has called
\* validateProjectPath before the fileService call.
C29_PathValidatedFirst ==
  \A i \in FileServiceCalls :
    \E j \in 1..(i - 1) : calls[j] = "validateProjectPath"

\* rank of a story's group in the order schema, backend, UI, other
GroupRank(story) ==
  CASE Category(story) = "schema"  -> 1
    [] Category(story) = "backend" -> 2
    [] Category(story) = "ui"      -> 3
    [] OTHER                       -> 4

\* C30: orderStoriesByDependencies returns a permutation of its input with
\* the schema stories first, then the backend, the UI and the other stories,
\* input order kept inside each group, and priorities 1..n in array order
\* whatever determinePriority had assigned.
C30_StoryOrdering ==
  tpc = "done" =>
    LET n == Len(userStories)
        Position(i) == orderedStories[i].id
    IN  /\ Len(orderedStories) = n
        /\ \A i \in 1..n :
             /\ Position(i) \in 1..n
             /\ orderedStories[i].title = userStories[Position(i)].title
             /\ orderedStories[i].description =
                  userStories[Position(i)].description
             /\ orderedStories[i].priority = i
        /\ \A i, j \in 1..n :
             i < j =>
               /\ Position(i) # Position(j)
               /\ GroupRank(orderedStories[i]) <= GroupRank(orderedStories[j])
               /\ GroupRank(orderedStories[i]) = GroupRank(orderedStories[j])
                    => Position(i) < Position(j)

\* three stories of three groups were reordered and every priority that
\* determinePriority had assigned was replaced
C30_Witness ==
  /\ tpc = "done"
  /\ Len(orderedStories) = 3
  /\ orderedStories[1].id = 3
  /\ GroupRank(orderedStories[1]) < GroupRank(orderedStories[2])
  /\ GroupRank(orderedStories[2]) < GroupRank(orderedStories[3])
  /\ \A i \in 1..3 :
       userStories[orderedStories[i].id].priority # orderedStories[i].priority

\* C31: at most one /api/convert request of the component is in flight at
\* any time, and conversionInProgress is false again whenever the
\* conversion has settled, whether it succeeded or failed.
C31_SingleFlight ==
  /\ Cardinality(requests) <= 1
  /\ requests = {} => ~conversionInProgress

\* a second effect run and a click were both turned away during a
\* conversion, and conversions have both succeeded and failed
C31_Witness ==
  /\ {"effectSkipped", "callSkipped", "done", "failed"} \subseteq outcomes
  /\ nRequests >= 2
  /\ requests = {}
  /\ ~conversionInProgress

\* C32: if prdContent changed while a conversion was in flight then, once
\* every conversion has settled and no effect run is due, lastConvertedContent
\* and the jsonData on display belong to the current prdContent.
C32_NoStalePreview ==
  (changedInFlight /\ requests = {} /\ pendingEffects = 0) =>
    /\ lastConvertedContent = prdContent
    /\ (~error => jsonData = prdContent)
====
